---------------------------- MODULE Spec2Model ----------------------------
(***************************************************************************)
(* Model of fily's find operation (fily_lib/src/operations/find): the      *)
(* Condition<SearchCriteria> expression tree and its evaluate(), the        *)
(* per-criterion matchers, and the find() engine that walks each root,      *)
(* filters and evaluates the entries in parallel and aggregates the         *)
(* matches under the max_num_results cap.                                   *)
(*                                                                         *)
(* Text (file names, paths, substrings) is a sequence of one-character     *)
(* strings.  Result<bool, ()> is one of the three values OkTrue, OkFalse,  *)
(* ErrUnit.  evaluate() returns a record [res, trace]: the Result and the  *)
(* sequence of criteria whose matcher was invoked, in invocation order.    *)
(***************************************************************************)
EXTENDS Integers, Sequences, FiniteSets, TLC

(***************************************************************************)
(* Bounds of the model.                                                    *)
(***************************************************************************)
\* longest list of roots handed to find
MaxRoots == 2
\* largest finite max_num_results tried (usize::MAX is tried as well)
MaxCap == 2
\* longest FindOptions.options list tried
MaxOptions == 1
\* the largest depth bound tried for min_depth_from_start and
\* max_search_depth
MaxDepth == 2
\* the longest list of criteria handed to a constructor of the builder
MaxCriteria == 3
\* the largest number of full zero_buffer chunks in a length handed to
\* overwrite_with_zeroes
MaxChunks == 2
MaxFiles == 2
MaxDupFiles == 3

\* usize::MAX, the default of max_num_results and max_search_depth.  TLC's
\* integers are 32 bits wide, so the model takes the largest of them; all
\* that matters of the value is that no count or depth of the model reaches it.
USIZE_MAX == 2147483647

\* vec![0_u8; 100_000].len() in overwrite_with_zeroes
zero_buffer_len == 100000

(***************************************************************************)
(* Result<bool, ()>                                                        *)
(***************************************************************************)
OkTrue == "Ok(true)"
OkFalse == "Ok(false)"
ErrUnit == "Err(())"

Ok(b) == IF b THEN OkTrue ELSE OkFalse

(***************************************************************************)
(* Text helpers: str::contains, str::starts_with, Path::file_name.         *)
(***************************************************************************)
str_contains(s, sub) ==
    \E i \in 0..(Len(s) - Len(sub)) : SubSeq(s, i + 1, i + Len(sub)) = sub

str_starts_with(s, sub) ==
    Len(s) >= Len(sub) /\ SubSeq(s, 1, Len(sub)) = sub

str_ends_with(s, sub) ==
    Len(s) >= Len(sub) /\ SubSeq(s, Len(s) - Len(sub) + 1, Len(s)) = sub

\* Index of the last "/" of a path, 0 when there is none.
LastSlash(p) ==
    LET S == {i \in 1..Len(p) : p[i] = "/"}
    IN  IF S = {} THEN 0 ELSE CHOOSE i \in S : \A j \in S : j <= i

\* Path::file_name(): the final component, None for a path that has none
\* (the filesystem root "/").
path_file_name(p) ==
    LET n == SubSeq(p, LastSlash(p) + 1, Len(p))
    IN  IF n = <<>> THEN [some |-> FALSE, val |-> <<>>]
                    ELSE [some |-> TRUE, val |-> n]

\* walkdir's DirEntry::file_name(): the final component, or the whole path
\* when the path has no final component.
entry_file_name(p) ==
    IF path_file_name(p).some THEN path_file_name(p).val ELSE p

\* Regex::is_match for the patterns of the model: a literal, optionally
\* anchored at the start (^) and at the end ($).
regex_is_match(re, s) ==
    IF re.start /\ re.end THEN s = re.lit
    ELSE IF re.start THEN str_starts_with(s, re.lit)
    ELSE IF re.end THEN str_ends_with(s, re.lit)
    ELSE str_contains(s, re.lit)

(***************************************************************************)
(* The filesystem the walks run over.  A directory entry carries what the  *)
(* matchers read: its path, whether its name and its path convert to       *)
(* UTF-8, its type, whether metadata() succeeds, and the metadata: length, *)
(* mtime, atime, and the creation time when the platform reports one.      *)
(***************************************************************************)
File(p, sz, mt, at, hasbt, bt) ==
    [kind |-> "entry", path |-> p, name_utf8 |-> TRUE, path_utf8 |-> TRUE,
     ftype |-> "file", meta_ok |-> TRUE, len |-> sz, mtime |-> mt,
     atime |-> at, has_btime |-> hasbt, btime |-> bt, depth |-> 1]

Dir(p, d) ==
    [kind |-> "entry", path |-> p, name_utf8 |-> TRUE, path_utf8 |-> TRUE,
     ftype |-> "dir", meta_ok |-> TRUE, len |-> 0, mtime |-> 0,
     atime |-> 0, has_btime |-> TRUE, btime |-> 0, depth |-> d]

\* An item of the walk for which walkdir yields Err (unreadable directory).
WalkErr(d) == [kind |-> "err", depth |-> d]

\* The entries of the filesystem.  "\u" stands for a byte that is no valid
\* UTF-8: the name that holds it does not convert with to_str().
E_x == Dir(<<"/", "x">>, 0)
E_xa == File(<<"/", "x", "/", "a">>, 1, 1, 3, TRUE, 1)
E_xb == File(<<"/", "x", "/", "b", "a">>, 3, 2, 1, TRUE, 3)
E_y == Dir(<<"/", "y">>, 0)
\* a hidden file on a filesystem that reports no creation time
E_yh == File(<<"/", "y", "/", ".", "h">>, 2, 2, 2, FALSE, 0)
\* a file whose metadata() call fails
E_ym == [File(<<"/", "y", "/", "m", "a">>, 0, 0, 0, FALSE, 0)
            EXCEPT !.meta_ok = FALSE]
\* a root that is a single file with a name that is no UTF-8
E_w == [File(<<"/", "\\u">>, 2, 1, 1, TRUE, 2)
            EXCEPT !.name_utf8 = FALSE, !.path_utf8 = FALSE, !.depth = 0]
\* the filesystem root: a directory without a final path component
E_root == Dir(<<"/">>, 0)

\* a directory /d that holds a file f and a subdirectory s with a file g:
\* walkdir numbers the root 0, its content 1, the content of s 2
E_d == Dir(<<"/", "d">>, 0)
E_df == File(<<"/", "d", "/", "f">>, 1, 1, 1, TRUE, 1)
E_ds == Dir(<<"/", "d", "/", "s">>, 1)
E_dsg == [File(<<"/", "d", "/", "s", "/", "g">>, 1, 1, 1, TRUE, 1)
            EXCEPT !.depth = 2]

\* a directory /v that holds a hidden directory .c with a file k and a
\* hidden file .z in it
E_v == Dir(<<"/", "v">>, 0)
E_vc == Dir(<<"/", "v", "/", ".", "c">>, 1)
E_vck == [File(<<"/", "v", "/", ".", "c", "/", "k">>, 2, 2, 2, TRUE, 2)
            EXCEPT !.depth = 2]
E_vcz == [File(<<"/", "v", "/", ".", "c", "/", ".", "z">>, 2, 2, 2, TRUE, 2)
            EXCEPT !.depth = 2]

\* Every DirEntry evaluate() is tried on.
Entries == {E_x, E_xa, E_xb, E_y, E_yh, E_ym, E_w, E_root}

\* The root arguments a caller may pass (relative to the working directory
\* "/" or absolute) and what fs::canonicalize makes of each: the absolute
\* path, or an error for a path that does not exist.
RootArgs == {<<"x">>, <<"/", "y">>, <<".", "/", "\\u">>, <<"n", "o">>}

canonicalize(p) ==
    CASE p = <<"x">> -> [ok |-> TRUE, path |-> <<"/", "x">>]
      [] p = <<"/", "y">> -> [ok |-> TRUE, path |-> <<"/", "y">>]
      [] p = <<".", "/", "\\u">> -> [ok |-> TRUE, path |-> <<"/", "\\u">>]
      [] p = <<"/", "d">> -> [ok |-> TRUE, path |-> <<"/", "d">>]
      [] p = <<"/", "v">> -> [ok |-> TRUE, path |-> <<"/", "v">>]
      [] OTHER -> [ok |-> FALSE, path |-> <<>>]

\* What WalkDir::new(root) yields without depth bounds, in walk order: the
\* root itself at depth 0, then its content at depth 1; Err for the
\* subdirectory of /y that cannot be read.
Tree(root) ==
    CASE root = <<"/", "x">> -> <<E_x, E_xa, E_xb>>
      [] root = <<"/", "y">> -> <<E_y, E_yh, WalkErr(1), E_ym>>
      [] root = <<"/", "\\u">> -> <<E_w>>
      [] root = <<"/", "d">> -> <<E_d, E_df, E_ds, E_dsg>>
      [] root = <<"/", "v">> -> <<E_v, E_vc, E_vck, E_vcz>>
      [] OTHER -> <<>>

\* WalkDir::new(root).min_depth(min).max_depth(max).into_iter().collect():
\* the items of the walk whose depth lies within the bounds.  walkdir's
\* max_depth() setter, called after min_depth(), raises a maximum that is
\* below the minimum to the minimum.
WalkDir(root, min, max) ==
    LET hi == IF max < min THEN min ELSE max
    IN  SelectSeq(Tree(root), LAMBDA it : it.depth >= min /\ it.depth <= hi)

(***************************************************************************)
(* SearchCriteria and Condition<SearchCriteria>                            *)
(***************************************************************************)
Filename(m, t) == [crit |-> "Filename", mode |-> m, text |-> t]
Filesize(m, n) == [crit |-> "Filesize", mode |-> m, size |-> n]
FilePath(m, t) == [crit |-> "FilePath", mode |-> m, text |-> t]
FilenameRegex(r) == [crit |-> "FilenameRegex", re |-> r]
Modified(m, t) == [crit |-> "Modified", mode |-> m, secs |-> t]
Accessed(m, t) == [crit |-> "Accessed", mode |-> m, secs |-> t]
Created(m, t) == [crit |-> "Created", mode |-> m, secs |-> t]

Value(c) == [op |-> "Value", v |-> c]
Not(c) == [op |-> "Not", c1 |-> c]
And(a, b) == [op |-> "And", c1 |-> a, c2 |-> b]
Or(a, b) == [op |-> "Or", c1 |-> a, c2 |-> b]

(***************************************************************************)
(* The matchers of condition.rs.  Each returns a Result<bool, ()>.         *)
(***************************************************************************)
filename_matches(dir_entry, filename_options) ==
    LET fname == path_file_name(dir_entry.path)
    IN  IF ~fname.some THEN ErrUnit
        ELSE IF ~dir_entry.name_utf8 THEN ErrUnit
        ELSE IF filename_options.mode = "Exact"
             THEN Ok(fname.val = filename_options.text)
             ELSE Ok(str_contains(fname.val, filename_options.text))

\* Variant of filesize_matches whose bounds include the operand: >=, <=.
filesize_matches_inclusive(dir_entry, filesize_options) ==
    IF ~dir_entry.meta_ok THEN ErrUnit
    ELSE CASE filesize_options.mode = "Exact" ->
                Ok(dir_entry.len = filesize_options.size)
           [] filesize_options.mode = "Over" ->
                Ok(dir_entry.len >= filesize_options.size)
           [] filesize_options.mode = "Under" ->
                Ok(dir_entry.len <= filesize_options.size)

filesize_matches(dir_entry, filesize_options) ==
    IF ~dir_entry.meta_ok THEN ErrUnit
    ELSE CASE filesize_options.mode = "Exact" ->
                Ok(dir_entry.len = filesize_options.size)
           [] filesize_options.mode = "Over" ->
                Ok(dir_entry.len > filesize_options.size)
           [] filesize_options.mode = "Under" ->
                Ok(dir_entry.len < filesize_options.size)

filepath_matches(dir_entry, filepath_options) ==
    IF ~dir_entry.path_utf8 THEN ErrUnit
    ELSE IF filepath_options.mode = "Exact"
         THEN Ok(dir_entry.path = filepath_options.text)
         ELSE Ok(str_contains(dir_entry.path, filepath_options.text))

filename_regex_matches(dir_entry, filename_regex) ==
    LET fname == path_file_name(dir_entry.path)
    IN  IF ~fname.some THEN ErrUnit
        ELSE IF ~dir_entry.name_utf8 THEN ErrUnit
        ELSE Ok(regex_is_match(filename_regex, fname.val))

\* The comparison shared by the three time matchers: At, Before, After.
time_compare(t, mode, secs) ==
    CASE mode = "At" -> Ok(t = secs)
      [] mode = "Before" -> Ok(t < secs)
      [] mode = "After" -> Ok(t > secs)

modification_time_matches(dir_entry, modified_options) ==
    IF ~dir_entry.meta_ok THEN ErrUnit
    ELSE time_compare(dir_entry.mtime, modified_options.mode,
                      modified_options.secs)

access_time_matches(dir_entry, access_options) ==
    IF ~dir_entry.meta_ok THEN ErrUnit
    ELSE time_compare(dir_entry.atime, access_options.mode,
                      access_options.secs)

\* The error of a failed metadata() call and the error of a creation time
\* the platform does not report are the same value, Err(()).
creation_time_matches(dir_entry, creation_options) ==
    IF ~dir_entry.meta_ok THEN ErrUnit
    ELSE IF ~dir_entry.has_btime THEN ErrUnit
    ELSE time_compare(dir_entry.btime, creation_options.mode,
                      creation_options.secs)

\* The Value arm of evaluate(): dispatch on the criterion.
evaluate_Value(search_criteria, dir_entry) ==
    CASE search_criteria.crit = "Filename" ->
            filename_matches(dir_entry, search_criteria)
      [] search_criteria.crit = "Filesize" ->
            filesize_matches(dir_entry, search_criteria)
      [] search_criteria.crit = "FilePath" ->
            filepath_matches(dir_entry, search_criteria)
      [] search_criteria.crit = "FilenameRegex" ->
            filename_regex_matches(dir_entry, search_criteria.re)
      [] search_criteria.crit = "Modified" ->
            modification_time_matches(dir_entry, search_criteria)
      [] search_criteria.crit = "Accessed" ->
            access_time_matches(dir_entry, search_criteria)
      [] search_criteria.crit = "Created" ->
            creation_time_matches(dir_entry, search_criteria)

(***************************************************************************)
(* Condition::evaluate.  `a? && b?` evaluates a; an Err returns at once;   *)
(* Ok(false) decides the conjunction without evaluating b; otherwise b is  *)
(* evaluated and its Err or its value is the result.  `||` is the dual.    *)
(***************************************************************************)
RECURSIVE evaluate(_, _)

\* Variant of the And arm with the non-short-circuit operator `&`: both
\* operands are always evaluated.
evaluate_And_eager(condition1, condition2, dir_entry) ==
    LET r1 == evaluate(condition1, dir_entry)
        r2 == evaluate(condition2, dir_entry)
    IN  IF r1.res = ErrUnit THEN r1
        ELSE [res |-> IF r2.res = ErrUnit THEN ErrUnit
                      ELSE Ok(r1.res = OkTrue /\ r2.res = OkTrue),
              trace |-> r1.trace \o r2.trace]

\* Variant of the And arm that goes on after an error of the left operand
\* (unwrap_or(true) in place of `?`).
evaluate_And_tolerant(condition1, condition2, dir_entry) ==
    LET r1 == evaluate(condition1, dir_entry)
    IN  IF r1.res = OkFalse THEN r1
        ELSE LET r2 == evaluate(condition2, dir_entry)
             IN  [res |-> r2.res, trace |-> r1.trace \o r2.trace]

\* Variant of the Or arm that goes on to the right operand when the left
\* one fails, and is true when the right one is.
evaluate_Or_tolerant(condition1, condition2, dir_entry) ==
    LET r1 == evaluate(condition1, dir_entry)
        r2 == evaluate(condition2, dir_entry)
    IN  IF r1.res = OkTrue THEN r1
        ELSE [res |-> IF r2.res = OkTrue \/ r1.res = OkFalse THEN r2.res
                      ELSE r1.res,
              trace |-> r1.trace \o r2.trace]

\* Variant of the Or arm with the non-short-circuit operator `|`.
evaluate_Or_eager(condition1, condition2, dir_entry) ==
    LET r1 == evaluate(condition1, dir_entry)
        r2 == evaluate(condition2, dir_entry)
    IN  IF r1.res = ErrUnit THEN r1
        ELSE [res |-> IF r2.res = ErrUnit THEN ErrUnit
                      ELSE Ok(r1.res = OkTrue \/ r2.res = OkTrue),
              trace |-> r1.trace \o r2.trace]

evaluate_And(condition1, condition2, dir_entry) ==
    LET r1 == evaluate(condition1, dir_entry)
    IN  IF r1.res # OkTrue THEN r1
        ELSE LET r2 == evaluate(condition2, dir_entry)
             IN  [res |-> r2.res, trace |-> r1.trace \o r2.trace]

evaluate_Or(condition1, condition2, dir_entry) ==
    LET r1 == evaluate(condition1, dir_entry)
    IN  IF r1.res # OkFalse THEN r1
        ELSE LET r2 == evaluate(condition2, dir_entry)
             IN  [res |-> r2.res, trace |-> r1.trace \o r2.trace]

evaluate_Not(condition, dir_entry) ==
    LET r == evaluate(condition, dir_entry)
    IN  IF r.res = ErrUnit THEN r
        ELSE [res |-> Ok(r.res = OkFalse), trace |-> r.trace]

evaluate(self, dir_entry) ==
    CASE self.op = "And" -> evaluate_And(self.c1, self.c2, dir_entry)
      [] self.op = "Not" -> evaluate_Not(self.c1, dir_entry)
      [] self.op = "Or" -> evaluate_Or(self.c1, self.c2, dir_entry)
      [] self.op = "Value" ->
            [res |-> evaluate_Value(self.v, dir_entry), trace |-> <<self.v>>]

(***************************************************************************)
(* The state.                                                              *)
(*   paths_to_search_in, find_options   the arguments of find              *)
(*   pc          where find is: "start", "loop" (head of the for loop),    *)
(*               "par" (the parallel filter_map of one root), "break",     *)
(*               "done"; "idle" when no find is running                    *)
(*   paths       the canonicalized roots; k the index of the loop          *)
(*   entries     the collected walk of root k (a Vec of items)             *)
(*   slot        per item of entries: "pending", or the Option the         *)
(*               closure returned for it                                   *)
(*   results     the accumulated matches; ret the components of the        *)
(*               value find returned (empty before it returns)             *)
(*   history     per closure call: root index, item index, the stage that  *)
(*               decided it and the evaluate() calls made                  *)
(*   ev          a single evaluate() call: condition, entry, outcome       *)
(*   call        a call of one of the other functions of the library: its  *)
(*               name, its arguments and, once it returned, its result     *)
(*   search_criterias   the argument of the call of a constructor of       *)
(*               FindOptionsBuilder (find_options is the builder's field)  *)
(***************************************************************************)
VARIABLES paths_to_search_in, find_options, pc, paths, k, entries, slot,
          results, ret, history, ev, search_criterias, call

find_vars == <<paths_to_search_in, find_options, pc, paths, k, entries, slot,
               results, ret, history>>
vars == <<paths_to_search_in, find_options, pc, paths, k, entries, slot,
          results, ret, history, ev, search_criterias, call>>

Min(a, b) == IF a < b THEN a ELSE b

\* Variant of truncate that leaves the vector as it is.
truncate_nothing(v, n) == v

\* Vec::truncate(n): keeps the first n elements, all of them when n >= len.
truncate(v, n) == SubSeq(v, 1, Min(n, Len(v)))

\* Variant of unwrap_or_false with the default true: unwrap_or(true).
unwrap_or_true(r) == r # OkFalse

\* Result::unwrap_or(false) on the outcome of evaluate(): an Err counts as
\* "does not match".
unwrap_or_false(r) == r = OkTrue

\* find_options.options.iter().all(|option| option.evaluate(&entry)
\* .unwrap_or(false)): the options in list order, stopping at the first one
\* that is not Ok(true).  Returns whether all held and the evaluate() calls
\* that were made, in order.
\* Variant of options_all that evaluates every option of the list.
RECURSIVE options_all_eager(_, _)
options_all_eager(options, dir_entry) ==
    IF options = <<>> THEN [all |-> TRUE, evals |-> <<>>]
    ELSE LET r == evaluate(Head(options), dir_entry)
             rest == options_all_eager(Tail(options), dir_entry)
         IN  [all |-> unwrap_or_false(r.res) /\ rest.all,
              evals |-> <<r>> \o rest.evals]

RECURSIVE options_all(_, _)
options_all(options, dir_entry) ==
    IF options = <<>> THEN [all |-> TRUE, evals |-> <<>>]
    ELSE LET r == evaluate(Head(options), dir_entry)
         IN  IF ~unwrap_or_false(r.res)
             THEN [all |-> FALSE, evals |-> <<r>>]
             ELSE LET rest == options_all(Tail(options), dir_entry)
                  IN  [all |-> rest.all, evals |-> <<r>> \o rest.evals]

None == [some |-> FALSE, path |-> <<>>]
Some(p) == [some |-> TRUE, path |-> p]

\* Whether a component of the path begins with '.'.
has_hidden_component(p) ==
    \E i \in 1..Len(p) : p[i] = "." /\ (i = 1 \/ p[i - 1] = "/")

\* Variant of filter_map_closure whose hidden filter also drops what lies
\* below a hidden directory.
filter_map_closure_hidden_below(item, opts) ==
    IF item.kind = "err"
    THEN [out |-> None, stage |-> "walk_error", evals |-> <<>>]
    ELSE IF \/ (opts.ignore = "Files" /\ item.ftype = "file")
            \/ (opts.ignore = "Folders" /\ item.ftype = "dir")
    THEN [out |-> None, stage |-> "ignored", evals |-> <<>>]
    ELSE IF /\ opts.ignore_hidden_files
            /\ item.name_utf8
            /\ has_hidden_component(item.path)
    THEN [out |-> None, stage |-> "hidden", evals |-> <<>>]
    ELSE LET a == options_all(opts.options, item)
         IN  [out |-> IF a.all THEN Some(item.path) ELSE None,
              stage |-> "evaluated", evals |-> a.evals]

\* Variant of filter_map_closure with the two arms of the match on ignore
\* exchanged: Files drops the directories, Folders the files.
filter_map_closure_ignore_swapped(item, opts) ==
    IF item.kind = "err"
    THEN [out |-> None, stage |-> "walk_error", evals |-> <<>>]
    ELSE IF \/ (opts.ignore = "Files" /\ item.ftype = "dir")
            \/ (opts.ignore = "Folders" /\ item.ftype = "file")
    THEN [out |-> None, stage |-> "ignored", evals |-> <<>>]
    ELSE IF /\ opts.ignore_hidden_files
            /\ item.name_utf8
            /\ str_starts_with(entry_file_name(item.path), <<".">>)
    THEN [out |-> None, stage |-> "hidden", evals |-> <<>>]
    ELSE LET a == options_all(opts.options, item)
         IN  [out |-> IF a.all THEN Some(item.path) ELSE None,
              stage |-> "evaluated", evals |-> a.evals]

\* Variant of filter_map_closure that filters out, as hidden, the entry
\* whose name does not convert with to_str().
filter_map_closure_hidden_strict(item, opts) ==
    IF item.kind = "err"
    THEN [out |-> None, stage |-> "walk_error", evals |-> <<>>]
    ELSE IF \/ (opts.ignore = "Files" /\ item.ftype = "file")
            \/ (opts.ignore = "Folders" /\ item.ftype = "dir")
    THEN [out |-> None, stage |-> "ignored", evals |-> <<>>]
    ELSE IF /\ opts.ignore_hidden_files
            /\ \/ ~item.name_utf8
               \/ str_starts_with(entry_file_name(item.path), <<".">>)
    THEN [out |-> None, stage |-> "hidden", evals |-> <<>>]
    ELSE LET a == options_all(opts.options, item)
         IN  [out |-> IF a.all THEN Some(item.path) ELSE None,
              stage |-> "evaluated", evals |-> a.evals]

\* The closure handed to filter_map, on one item of the walk: the Option it
\* returns, the stage at which it returned and the evaluate() calls it made.
filter_map_closure(item, opts) ==
    IF item.kind = "err"
    THEN [out |-> None, stage |-> "walk_error", evals |-> <<>>]
    ELSE IF \/ (opts.ignore = "Files" /\ item.ftype = "file")
            \/ (opts.ignore = "Folders" /\ item.ftype = "dir")
    THEN [out |-> None, stage |-> "ignored", evals |-> <<>>]
    ELSE IF /\ opts.ignore_hidden_files
            /\ item.name_utf8
            /\ str_starts_with(entry_file_name(item.path), <<".">>)
    THEN [out |-> None, stage |-> "hidden", evals |-> <<>>]
    ELSE LET a == options_all(opts.options, item)
         IN  [out |-> IF a.all THEN Some(item.path) ELSE None,
              stage |-> "evaluated", evals |-> a.evals]

\* paths_to_search_in.iter().filter_map(canonicalize ... ).collect()
RECURSIVE canonicalize_all(_)
canonicalize_all(ps) ==
    IF ps = <<>> THEN <<>>
    ELSE LET c == canonicalize(Head(ps))
         IN  (IF c.ok THEN <<c.path>> ELSE <<>>) \o canonicalize_all(Tail(ps))

\* Variant of collect_slots that yields the Some slots last item first.
RECURSIVE collect_slots_reversed(_, _)
collect_slots_reversed(sl, i) ==
    IF i > Len(sl) THEN <<>>
    ELSE collect_slots_reversed(sl, i + 1)
         \o (IF sl[i].some THEN <<sl[i].path>> ELSE <<>>)

\* collect() of the parallel filter_map: the paths of the Some slots, in the
\* order of the items they came from.
RECURSIVE collect_slots(_, _)
collect_slots(sl, i) ==
    IF i > Len(sl) THEN <<>>
    ELSE (IF sl[i].some THEN <<sl[i].path>> ELSE <<>>)
         \o collect_slots(sl, i + 1)

\* A slot of the parallel iterator whose closure has not run yet, and the
\* slot once the closure returned the Option o.
PendingSlot == [done |-> FALSE, some |-> FALSE, path |-> <<>>]
DoneSlot(o) == [done |-> TRUE, some |-> o.some, path |-> o.path]

\* An evaluate() call that has not returned.
PendingEval == [res |-> "pending", trace |-> <<>>]

(***************************************************************************)
(* The inputs tried.                                                       *)
(***************************************************************************)
\* Sequences over S of length at most n.
SeqsUpTo(S, n) == UNION {[1..m -> S] : m \in 0..n}

\* The criteria the conditions are built from: every variant and mode.
Leaves ==
    {Filename("Exact", <<"a">>), Filename("Contains", <<"a">>),
     Filesize("Exact", 2), Filesize("Over", 2), Filesize("Under", 2),
     FilePath("Exact", <<"/", "x">>), FilePath("Contains", <<"x", "/">>),
     FilenameRegex([start |-> TRUE, lit |-> <<".">>, end |-> FALSE])}
    \cup {Modified(m, 2) : m \in {"At", "Before", "After"}}
    \cup {Accessed(m, 2) : m \in {"At", "Before", "After"}}
    \cup {Created(m, 2) : m \in {"At", "Before", "After"}}

\* The conditions evaluate() is tried on: a criterion, its negation, every
\* And and Or of two of those, and the negation of each And and Or.
Operands == {Value(c) : c \in Leaves} \cup {Not(Value(c)) : c \in Leaves}
Binary ==
    {And(a, b) : a \in Operands, b \in Operands}
    \cup {Or(a, b) : a \in Operands, b \in Operands}
EvalConds == Operands \cup Binary \cup {Not(c) : c \in Binary}

\* The conditions find is tried with: a criterion that fails on entries of
\* the filesystem (metadata that cannot be read, a creation time that is
\* not reported), plain and under Not, and an And over an Or whose criteria
\* fail on a name that is no UTF-8 and on unreadable metadata.
FindConds ==
    {Value(Created("After", 0)),
     Not(Value(Created("After", 0))),
     And(Or(Value(Filename("Contains", <<"a">>)), Value(Filesize("Over", 1))),
         Value(Modified("Before", 3)))}

\* No call of another function of the library is under way.
NoCall == [fn |-> "none"]

IdleEv == [cond |-> Value(Filesize("Exact", 2)), entry |-> E_x,
           out |-> PendingEval]

(***************************************************************************)
(* find(paths_to_search_in, find_options)                                  *)
(***************************************************************************)
Init ==
    /\ paths_to_search_in \in SeqsUpTo(RootArgs, MaxRoots)
    /\ find_options \in
         [options : SeqsUpTo(FindConds, MaxOptions),
          max_num_results : (0..MaxCap) \cup {USIZE_MAX},
          max_search_depth : {USIZE_MAX},
          min_depth_from_start : {0},
          ignore : {"None", "Files", "Folders"},
          ignore_hidden_files : BOOLEAN,
          follow_symlinks : {FALSE}]
    /\ pc = "start"
    /\ paths = <<>>
    /\ k = 1
    /\ entries = <<>>
    /\ slot = <<>>
    /\ results = <<>>
    /\ ret = <<>>
    /\ history = {}
    /\ ev = IdleEv
    /\ search_criterias = <<>>
    /\ call = NoCall

\* Lines 262-275: the roots that canonicalize, in the order given; the
\* others are logged and dropped.  results starts empty.
Canonicalize ==
    /\ pc = "start"
    /\ paths' = canonicalize_all(paths_to_search_in)
    /\ results' = <<>>
    /\ k' = 1
    /\ pc' = "loop"
    /\ UNCHANGED <<paths_to_search_in, find_options, entries, slot, ret,
                   history, ev,
                   search_criterias, call>>

\* Lines 277-284: the next root is walked and the whole walk is collected
\* into a Vec before any item is looked at.
WalkRoot ==
    /\ pc = "loop"
    /\ k <= Len(paths)
    /\ entries' = WalkDir(paths[k], find_options.min_depth_from_start,
                          find_options.max_search_depth)
    /\ slot' = [i \in 1..Len(entries') |-> PendingSlot]
    /\ pc' = "par"
    /\ UNCHANGED <<paths_to_search_in, find_options, paths, k, results, ret,
                   history, ev,
                   search_criterias, call>>

\* Variant of FilterMap in which the workers write their outcome into the
\* next free slot: the slots fill in the order in which the closures return.
FilterMap_unordered(i) ==
    /\ pc = "par"
    /\ i \in 1..Len(entries)
    /\ ~\E h \in history : h.root = k /\ h.idx = i
    /\ LET r == filter_map_closure(entries[i], find_options)
           j == CHOOSE n \in 1..Len(slot) :
                    ~slot[n].done /\ \A m \in 1..(n - 1) : slot[m].done
       IN  /\ slot' = [slot EXCEPT ![j] = DoneSlot(r.out)]
           /\ history' = history \cup
                {[root |-> k, idx |-> i, item |-> entries[i],
                  stage |-> r.stage, evals |-> r.evals, out |-> r.out]}
    /\ UNCHANGED <<paths_to_search_in, find_options, pc, paths, k, entries,
                   results, ret, ev,
                   search_criterias, call>>

\* Lines 285-321: a worker runs the closure on item i.  The workers take
\* the items in any order.
FilterMap(i) ==
    /\ pc = "par"
    /\ i \in 1..Len(entries)
    /\ ~slot[i].done
    /\ LET r == filter_map_closure(entries[i], find_options)
       IN  /\ slot' = [slot EXCEPT ![i] = DoneSlot(r.out)]
           /\ history' = history \cup
                {[root |-> k, idx |-> i, item |-> entries[i],
                  stage |-> r.stage, evals |-> r.evals, out |-> r.out]}
    /\ UNCHANGED <<paths_to_search_in, find_options, pc, paths, k, entries,
                   results, ret, ev,
                   search_criterias, call>>

\* Variant of Collect whose test of the cap is > where the code has >=.
Collect_strict_cap ==
    /\ pc = "par"
    /\ \A i \in 1..Len(slot) : slot[i].done
    /\ LET matching_files == collect_slots(slot, 1)
       IN  IF Len(results) + Len(matching_files)
                > find_options.max_num_results
           THEN /\ results' = results \o
                      truncate(matching_files,
                               find_options.max_num_results - Len(results))
                /\ pc' = "break"
                /\ k' = k
           ELSE /\ results' = results \o matching_files
                /\ pc' = "loop"
                /\ k' = k + 1
    /\ UNCHANGED <<paths_to_search_in, find_options, paths, entries, slot,
                   ret, history, ev,
                   search_criterias, call>>

\* Variant of Collect without the break: the matches are truncated and
\* appended, and the loop goes on with the next root.
Collect_no_break ==
    /\ pc = "par"
    /\ \A i \in 1..Len(slot) : slot[i].done
    /\ LET matching_files == collect_slots(slot, 1)
       IN  results' = results \o
               truncate(matching_files,
                        find_options.max_num_results - Len(results))
    /\ pc' = "loop"
    /\ k' = k + 1
    /\ UNCHANGED <<paths_to_search_in, find_options, paths, entries, slot,
                   ret, history, ev,
                   search_criterias, call>>

\* Variant of Collect that does not wait for the closures still running
\* once the slots that are done hold enough matches to reach the cap.
Collect_early ==
    /\ pc = "par"
    /\ LET matching_files == collect_slots(slot, 1)
       IN  /\ \/ \A i \in 1..Len(slot) : slot[i].done
              \/ Len(results) + Len(matching_files)
                    >= find_options.max_num_results
           /\ IF Len(results) + Len(matching_files)
                    >= find_options.max_num_results
              THEN /\ results' = results \o
                         truncate(matching_files,
                                  find_options.max_num_results - Len(results))
                   /\ pc' = "break"
                   /\ k' = k
              ELSE /\ results' = results \o matching_files
                   /\ pc' = "loop"
                   /\ k' = k + 1
    /\ UNCHANGED <<paths_to_search_in, find_options, paths, entries, slot,
                   ret, history, ev,
                   search_criterias, call>>

\* Variant of Collect that gives up at the first root in which the walk or
\* the evaluation of an entry failed: the loop is left with the matches of
\* the roots before it.
Collect_abort_on_error ==
    /\ pc = "par"
    /\ \A i \in 1..Len(slot) : slot[i].done
    /\ LET matching_files == collect_slots(slot, 1)
           failed == \E h \in history :
                        /\ h.root = k
                        /\ \/ h.stage = "walk_error"
                           \/ \E j \in 1..Len(h.evals) :
                                 h.evals[j].res = ErrUnit
       IN  IF failed
           THEN /\ results' = results
                /\ pc' = "break"
                /\ k' = k
           ELSE IF Len(results) + Len(matching_files)
                     >= find_options.max_num_results
           THEN /\ results' = results \o
                      truncate(matching_files,
                               find_options.max_num_results - Len(results))
                /\ pc' = "break"
                /\ k' = k
           ELSE /\ results' = results \o matching_files
                /\ pc' = "loop"
                /\ k' = k + 1
    /\ UNCHANGED <<paths_to_search_in, find_options, paths, entries, slot,
                   ret, history, ev,
                   search_criterias, call>>

\* Lines 322-336: once every closure has returned the matches of the root
\* are collected; when the cap is reached they are truncated, appended and
\* the loop is left, otherwise they are appended and the loop goes on.
Collect ==
    /\ pc = "par"
    /\ \A i \in 1..Len(slot) : slot[i].done
    /\ LET matching_files == collect_slots(slot, 1)
       IN  IF Len(results) + Len(matching_files)
                >= find_options.max_num_results
           THEN /\ results' = results \o
                      truncate(matching_files,
                               find_options.max_num_results - Len(results))
                /\ pc' = "break"
                /\ k' = k
           ELSE /\ results' = results \o matching_files
                /\ pc' = "loop"
                /\ k' = k + 1
    /\ UNCHANGED <<paths_to_search_in, find_options, paths, entries, slot,
                   ret, history, ev,
                   search_criterias, call>>

\* Lines 338-340: after the loop (left by break or by exhaustion of the
\* roots) find returns results: a Vec<PathBuf>, the only component of the
\* returned value.
Return ==
    /\ \/ pc = "break"
       \/ (pc = "loop" /\ k > Len(paths))
    /\ ret' = <<results>>
    /\ pc' = "done"
    /\ UNCHANGED <<paths_to_search_in, find_options, paths, k, entries, slot,
                   results, history, ev,
                   search_criterias, call>>

Next ==
    \/ Canonicalize
    \/ WalkRoot
    \/ \E i \in 1..Len(entries) : FilterMap(i)
    \/ Collect
    \/ Return

Spec == Init /\ [][Next]_vars

(***************************************************************************)
(* find with depth bounds, over the directory /d.                          *)
(***************************************************************************)
InitDepth ==
    /\ paths_to_search_in \in {<<<<"/", "d">>>>, <<<<"x">>, <<"/", "d">>>>}
    /\ find_options \in
         [options : SeqsUpTo(FindConds, 1),
          max_num_results : {USIZE_MAX},
          max_search_depth : (0..MaxDepth) \cup {USIZE_MAX},
          min_depth_from_start : 0..MaxDepth,
          ignore : {"None", "Files", "Folders"},
          ignore_hidden_files : {FALSE},
          follow_symlinks : {FALSE}]
    /\ pc = "start"
    /\ paths = <<>>
    /\ k = 1
    /\ entries = <<>>
    /\ slot = <<>>
    /\ results = <<>>
    /\ ret = <<>>
    /\ history = {}
    /\ ev = IdleEv
    /\ search_criterias = <<>>
    /\ call = NoCall

SpecDepth == InitDepth /\ [][Next]_vars

\* find on one root or two, /v with its hidden directory among them, with
\* lists of up to two conditions, with and without the hidden filter and
\* without a cap.
InitList ==
    /\ paths_to_search_in \in
          {<<<<"x">>>>, <<<<"/", "y">>>>, <<<<"/", "v">>>>,
           <<<<"/", "v">>, <<"x">>>>, <<<<"x">>, <<"/", "y">>>>}
    /\ find_options \in
         [options : SeqsUpTo(FindConds, 2),
          max_num_results : {USIZE_MAX},
          max_search_depth : {USIZE_MAX},
          min_depth_from_start : {0},
          ignore : {"None", "Files"},
          ignore_hidden_files : BOOLEAN,
          follow_symlinks : {FALSE}]
    /\ pc = "start"
    /\ paths = <<>>
    /\ k = 1
    /\ entries = <<>>
    /\ slot = <<>>
    /\ results = <<>>
    /\ ret = <<>>
    /\ history = {}
    /\ ev = IdleEv
    /\ search_criterias = <<>>
    /\ call = NoCall

SpecList == InitList /\ [][Next]_vars

(***************************************************************************)
(* FindOptionsBuilder: the constructors that build one condition from a    *)
(* list of criteria.  Each takes the first criterion as the start, then    *)
(* wraps the condition built so far, as the second operand, under a node   *)
(* whose first operand is the next criterion.                              *)
(***************************************************************************)
\* for criteria in search_criterias { option = And(Value(criteria), option) }
RECURSIVE all_of_loop(_, _)
all_of_loop(option, criterias) ==
    IF criterias = <<>> THEN option
    ELSE all_of_loop(And(Value(Head(criterias)), option), Tail(criterias))

\* for criteria in search_criterias { option = Or(Value(criteria), option) }
RECURSIVE any_of_loop(_, _)
any_of_loop(option, criterias) ==
    IF criterias = <<>> THEN option
    ELSE any_of_loop(Or(Value(Head(criterias)), option), Tail(criterias))

\* for criteria in search_criterias
\*     { option = And(Not(Value(criteria)), option) }
RECURSIVE nothing_of_loop(_, _)
nothing_of_loop(option, criterias) ==
    IF criterias = <<>> THEN option
    ELSE nothing_of_loop(And(Not(Value(Head(criterias))), option),
                         Tail(criterias))

\* Variant of add_all_of_condition that joins the criteria with Or.
add_all_of_condition_with_or(options, criterias) ==
    IF criterias = <<>> THEN options
    ELSE Append(options,
                any_of_loop(Value(Head(criterias)), Tail(criterias)))

\* add_all_of_condition: nothing on an empty list; otherwise the condition
\* built from remove(0) and the loop is pushed onto options.
add_all_of_condition(options, criterias) ==
    IF criterias = <<>> THEN options
    ELSE Append(options,
                all_of_loop(Value(Head(criterias)), Tail(criterias)))

add_any_of_condition(options, criterias) ==
    IF criterias = <<>> THEN options
    ELSE Append(options,
                any_of_loop(Value(Head(criterias)), Tail(criterias)))

\* Variant of add_nothing_of_condition that starts, as the other two
\* constructors do, from the first criterion without the Not.
add_nothing_of_condition_plain_start(options, criterias) ==
    IF criterias = <<>> THEN options
    ELSE Append(options,
                nothing_of_loop(Value(Head(criterias)), Tail(criterias)))

add_nothing_of_condition(options, criterias) ==
    IF criterias = <<>> THEN options
    ELSE Append(options,
                nothing_of_loop(Not(Value(Head(criterias))), Tail(criterias)))

\* The files the built conditions are evaluated on: of 50, 500 and 5000
\* bytes, besides a file without creation time and one without metadata.
F_50 == File(<<"/", "s", "/", "a">>, 50, 1, 1, TRUE, 1)
F_500 == File(<<"/", "s", "/", "b">>, 500, 1, 1, TRUE, 0)
F_5000 == File(<<"/", "s", "/", "a", "b">>, 5000, 1, 1, TRUE, 1)
BuildEntries == {F_50, F_500, F_5000, E_yh, E_ym}

\* The criteria the lists are made of.
BuildLeaves ==
    {Filesize("Over", 100), Filesize("Under", 1000),
     Filename("Contains", <<"a">>), Created("After", 0)}

\* FindOptionsBuilder::new(), perhaps after an add_condition, and the list
\* a constructor is about to be called with.
InitBuild ==
    /\ find_options \in
         [options : SeqsUpTo({Value(Filename("Exact", <<"b">>))}, 1),
          max_num_results : {USIZE_MAX},
          max_search_depth : {USIZE_MAX},
          min_depth_from_start : {0},
          ignore : {"None"},
          ignore_hidden_files : {FALSE},
          follow_symlinks : {FALSE}]
    /\ search_criterias \in SeqsUpTo(BuildLeaves, MaxCriteria)
    /\ ev \in [cond : {IdleEv.cond}, entry : BuildEntries,
               out : {PendingEval}]
    /\ pc = "build"
    /\ paths_to_search_in = <<>>
    /\ paths = <<>>
    /\ k = 1
    /\ entries = <<>>
    /\ slot = <<>>
    /\ results = <<>>
    /\ ret = <<>>
    /\ history = {}
    /\ call = NoCall

build_unchanged == <<paths_to_search_in, paths, k, entries, slot, results,
                     ret, history, search_criterias, call>>

AddAllOf ==
    /\ pc = "build"
    /\ find_options' =
          [find_options EXCEPT
              !.options = add_all_of_condition(@, search_criterias)]
    /\ pc' = "all_of"
    /\ UNCHANGED <<build_unchanged, ev>>

AddAnyOf ==
    /\ pc = "build"
    /\ find_options' =
          [find_options EXCEPT
              !.options = add_any_of_condition(@, search_criterias)]
    /\ pc' = "any_of"
    /\ UNCHANGED <<build_unchanged, ev>>

AddNothingOf ==
    /\ pc = "build"
    /\ find_options' =
          [find_options EXCEPT
              !.options = add_nothing_of_condition(@, search_criterias)]
    /\ pc' = "nothing_of"
    /\ UNCHANGED <<build_unchanged, ev>>

\* The condition the constructor pushed is evaluated on an entry, as find
\* does with each element of options.
EvaluateBuilt ==
    /\ pc \in {"all_of", "any_of", "nothing_of"}
    /\ search_criterias # <<>>
    /\ ev.out = PendingEval
    /\ LET built == find_options.options[Len(find_options.options)]
       IN  ev' = [cond |-> built, entry |-> ev.entry,
                  out |-> evaluate(built, ev.entry)]
    /\ UNCHANGED <<build_unchanged, find_options, pc>>

NextBuild ==
    \/ AddAllOf
    \/ AddAnyOf
    \/ AddNothingOf
    \/ EvaluateBuilt

SpecBuild == InitBuild /\ [][NextBuild]_vars

(***************************************************************************)
(* SearchCriteria::try_from(&str).  A text is a sequence of characters.    *)
(***************************************************************************)
\* The arms of the match on criteria_name: the name, the variant it builds
\* and how the value is converted (kept as text, parsed as u64 or as i64,
\* compiled as a regex).
CriteriaTable ==
    {
     [name |->
        <<"f", "i", "l", "e", "n", "a", "m", "e", "_", "e", "x", "a", "c", "t">>,
      crit |-> "Filename", mode |-> "Exact", kind |-> "string"],
     [name |->
        <<"f", "i", "l", "e", "n", "a", "m", "e", "_", "c", "o", "n", "t", "a", "i", "n", "s">>,
      crit |-> "Filename", mode |-> "Contains", kind |-> "string"],
     [name |->
        <<"f", "i", "l", "e", "s", "i", "z", "e", "_", "e", "x", "a", "c", "t">>,
      crit |-> "Filesize", mode |-> "Exact", kind |-> "u64"],
     [name |->
        <<"f", "i", "l", "e", "s", "i", "z", "e", "_", "o", "v", "e", "r">>,
      crit |-> "Filesize", mode |-> "Over", kind |-> "u64"],
     [name |->
        <<"f", "i", "l", "e", "s", "i", "z", "e", "_", "u", "n", "d", "e", "r">>,
      crit |-> "Filesize", mode |-> "Under", kind |-> "u64"],
     [name |->
        <<"f", "i", "l", "e", "p", "a", "t", "h", "_", "e", "x", "a", "c", "t">>,
      crit |-> "FilePath", mode |-> "Exact", kind |-> "string"],
     [name |->
        <<"f", "i", "l", "e", "p", "a", "t", "h", "_", "c", "o", "n", "t", "a", "i", "n", "s">>,
      crit |-> "FilePath", mode |-> "Contains", kind |-> "string"],
     [name |->
        <<"f", "i", "l", "e", "n", "a", "m", "e", "r", "e", "g", "e", "x">>,
      crit |-> "FilenameRegex", mode |-> "", kind |-> "regex"],
     [name |->
        <<"m", "o", "d", "i", "f", "i", "e", "d", "_", "a", "t">>,
      crit |-> "Modified", mode |-> "At", kind |-> "i64"],
     [name |->
        <<"m", "o", "d", "i", "f", "i", "e", "d", "_", "b", "e", "f", "o", "r", "e">>,
      crit |-> "Modified", mode |-> "Before", kind |-> "i64"],
     [name |->
        <<"m", "o", "d", "i", "f", "i", "e", "d", "_", "a", "f", "t", "e", "r">>,
      crit |-> "Modified", mode |-> "After", kind |-> "i64"],
     [name |->
        <<"a", "c", "c", "e", "s", "s", "e", "d", "_", "a", "t">>,
      crit |-> "Accessed", mode |-> "At", kind |-> "i64"],
     [name |->
        <<"a", "c", "c", "e", "s", "s", "e", "d", "_", "b", "e", "f", "o", "r", "e">>,
      crit |-> "Accessed", mode |-> "Before", kind |-> "i64"],
     [name |->
        <<"a", "c", "c", "e", "s", "s", "e", "d", "_", "a", "f", "t", "e", "r">>,
      crit |-> "Accessed", mode |-> "After", kind |-> "i64"],
     [name |->
        <<"c", "r", "e", "a", "t", "e", "d", "_", "a", "t">>,
      crit |-> "Created", mode |-> "At", kind |-> "i64"],
     [name |->
        <<"c", "r", "e", "a", "t", "e", "d", "_", "b", "e", "f", "o", "r", "e">>,
      crit |-> "Created", mode |-> "Before", kind |-> "i64"],
     [name |->
        <<"c", "r", "e", "a", "t", "e", "d", "_", "a", "f", "t", "e", "r">>,
      crit |-> "Created", mode |-> "After", kind |-> "i64"]
    }

CriteriaNames == {row.name : row \in CriteriaTable}

\* str::trim(): the text without the white space at its two ends.
RECURSIVE trim_start(_)
trim_start(s) ==
    IF s # <<>> /\ Head(s) = " " THEN trim_start(Tail(s)) ELSE s

RECURSIVE trim_end(_)
trim_end(s) ==
    IF s # <<>> /\ s[Len(s)] = " " THEN trim_end(SubSeq(s, 1, Len(s) - 1))
    ELSE s

trim(s) == trim_end(trim_start(s))

\* splitn(2, '=').collect(): the whole text when it holds no '=', otherwise
\* what is before the first '=' and what is after it.
splitn_2(s) ==
    IF \A i \in 1..Len(s) : s[i] # "="
    THEN <<s>>
    ELSE LET i == CHOOSE n \in 1..Len(s) :
                    s[n] = "=" /\ \A m \in 1..(n - 1) : s[m] # "="
         IN  <<SubSeq(s, 1, i - 1), SubSeq(s, i + 1, Len(s))>>

Digits == {"0", "1", "2", "3", "4", "5", "6", "7", "8", "9"}
DigitValue(c) ==
    CASE c = "0" -> 0 [] c = "1" -> 1 [] c = "2" -> 2 [] c = "3" -> 3
      [] c = "4" -> 4 [] c = "5" -> 5 [] c = "6" -> 6 [] c = "7" -> 7
      [] c = "8" -> 8 [] c = "9" -> 9

RECURSIVE DecimalValue(_)
DecimalValue(ds) ==
    IF ds = <<>> THEN 0
    ELSE 10 * DecimalValue(SubSeq(ds, 1, Len(ds) - 1)) + DigitValue(ds[Len(ds)])

\* str::parse::<u64>() and str::parse::<i64>(): an optional sign ('+', and
\* '-' for the signed type) followed by one or more decimal digits.  The
\* texts tried have two digits at most, far from the overflow of 64 bits.
parse_int(v, signed) ==
    LET has_sign == v # <<>> /\ (Head(v) = "+" \/ (signed /\ Head(v) = "-"))
        ds == IF has_sign THEN Tail(v) ELSE v
    IN  IF ds = <<>> \/ \E i \in 1..Len(ds) : ds[i] \notin Digits
        THEN [ok |-> FALSE, val |-> 0]
        ELSE [ok |-> TRUE,
              val |-> IF has_sign /\ Head(v) = "-" THEN 0 - DecimalValue(ds)
                      ELSE DecimalValue(ds)]

\* regex::Regex::new() on the patterns of the model: a literal, optionally
\* with ^ in front and $ at the end; a group that is opened and not closed
\* is an error.
regex_new(v) ==
    IF \E i \in 1..Len(v) : v[i] = "("
    THEN [ok |-> FALSE, re |-> [start |-> FALSE, lit |-> <<>>, end |-> FALSE]]
    ELSE LET st == v # <<>> /\ Head(v) = "^"
             v1 == IF st THEN Tail(v) ELSE v
             en == v1 # <<>> /\ v1[Len(v1)] = "$"
             v2 == IF en THEN SubSeq(v1, 1, Len(v1) - 1) ELSE v1
         IN  [ok |-> TRUE, re |-> [start |-> st, lit |-> v2, end |-> en]]

\* What try_from returns: Ok(criterion), Err(error), or a panic.
ParseOk(c) == [tag |-> "Ok", val |-> c]
ParseErr(e) == [tag |-> "Err", err |-> e]
Panic(msg) == [tag |-> "Panic", msg |-> msg]

\* The arm of the match for a name of the table, on the value.
criteria_of(row, value) ==
    CASE row.kind = "string" ->
            ParseOk([crit |-> row.crit, mode |-> row.mode, text |-> value])
      [] row.kind = "u64" ->
            LET size == parse_int(value, FALSE)
            IN  IF ~size.ok THEN ParseErr("MalformedNumber")
                ELSE ParseOk(Filesize(row.mode, size.val))
      [] row.kind = "i64" ->
            LET timestamp == parse_int(value, TRUE)
            IN  IF ~timestamp.ok THEN ParseErr("MalformedNumber")
                ELSE ParseOk([crit |-> row.crit, mode |-> row.mode,
                              secs |-> timestamp.val])
      [] row.kind = "regex" ->
            LET regex == regex_new(value)
            IN  IF ~regex.ok THEN ParseErr("MalformedRegex")
                ELSE ParseOk(FilenameRegex(regex.re))

\* try_from: the text is trimmed and split at the first '='; the double
\* quotes are looked for at the two ends of the part BEFORE the '=', which
\* is then sliced from 1 to len - 1 (a panic when that part is the single
\* character '"': the slice would start at 1 and end at 0); the part after
\* the '=' is the value as it stands.
try_from(search_criteria_str) ==
    LET parts == splitn_2(trim(search_criteria_str))
    IN  IF Len(parts) = 1 THEN ParseErr("NoValue")
        ELSE LET criteria_name == parts[1]
             IN  IF \/ criteria_name = <<>>
                    \/ Head(criteria_name) # "\""
                    \/ criteria_name[Len(criteria_name)] # "\""
                 THEN ParseErr("MissingDoubleQuotes")
                 ELSE IF Len(criteria_name) - 1 < 1
                 THEN Panic("slice index starts at 1 but ends at 0")
                 ELSE LET name == SubSeq(criteria_name, 2,
                                         Len(criteria_name) - 1)
                          value == parts[2]
                      IN  IF name \in CriteriaNames
                          THEN criteria_of(
                                  CHOOSE row \in CriteriaTable :
                                      row.name = name, value)
                          ELSE ParseErr("UnknownCriteria")

PendingRet == [tag |-> "Pending"]

\* The texts try_from is tried on: a name of the table, no name or an
\* unknown one, with or without double quotes around it, with or without
\* '=', and a value with or without double quotes around it.
Quote == {<<>>, <<"\"">>}
ParseNames == CriteriaNames \cup {<<>>, <<"x">>}
ParseValues ==
    {<<>>, <<"a">>, <<"7">>, <<"-", "3">>, <<"+", "1", "2">>, <<"-">>,
     <<"(">>, <<"^", "a">>, <<"a", "=", "b">>}
ParseTexts ==
    {lead \o q1 \o n \o q2 \o eq \o q3 \o v \o q4 :
        lead \in {<<>>, <<" ">>}, q1 \in Quote, n \in ParseNames,
        q2 \in Quote, eq \in {<<>>, <<"=">>}, q3 \in Quote,
        v \in ParseValues, q4 \in Quote}

InitParse ==
    /\ call \in [fn : {"try_from"}, search_criteria_str : ParseTexts,
                 ret : {PendingRet}]
    /\ pc = "parse"
    /\ find_options =
         [options |-> <<>>, max_num_results |-> USIZE_MAX,
          max_search_depth |-> USIZE_MAX, min_depth_from_start |-> 0,
          ignore |-> "None", ignore_hidden_files |-> FALSE,
          follow_symlinks |-> FALSE]
    /\ ev = IdleEv
    /\ search_criterias = <<>>
    /\ paths_to_search_in = <<>>
    /\ paths = <<>>
    /\ k = 1
    /\ entries = <<>>
    /\ slot = <<>>
    /\ results = <<>>
    /\ ret = <<>>
    /\ history = {}

TryFromCall ==
    /\ pc = "parse"
    /\ call.ret = PendingRet
    /\ call' = [call EXCEPT !.ret = try_from(call.search_criteria_str)]
    /\ UNCHANGED <<find_vars, ev, search_criterias>>

NextParse == TryFromCall

SpecParse == InitParse /\ [][NextParse]_vars

(***************************************************************************)
(* delete::overwrite_with_zeroes(buf, len).  The bytes of the buffer are   *)
(* kept as runs: a sequence of [byte, count] with count > 0 and no two     *)
(* neighbours of the same byte, so that buffers of several chunks of       *)
(* 100000 bytes can be written down.                                       *)
(***************************************************************************)
\* What the actions of the functions modelled below leave alone.
call_unchanged == <<paths_to_search_in, find_options, paths, k, entries, slot,
                    results, ret, history, ev, search_criterias>>

Run(byte, count) == [byte |-> byte, count |-> count]

\* Vec::len()
RECURSIVE buf_len(_)
buf_len(b) == IF b = <<>> THEN 0 ELSE Head(b).count + buf_len(Tail(b))

\* The runs merged: no empty run, no two neighbours of the same byte.
RECURSIVE normalise(_)
normalise(b) ==
    IF b = <<>> THEN <<>>
    ELSE IF Head(b).count = 0 THEN normalise(Tail(b))
    ELSE LET rest == normalise(Tail(b))
         IN  IF rest # <<>> /\ Head(rest).byte = Head(b).byte
             THEN <<Run(Head(b).byte, Head(b).count + Head(rest).count)>>
                  \o Tail(rest)
             ELSE <<Head(b)>> \o rest

\* &b[..n] and &b[n..], the whole and nothing when n is beyond the end.
RECURSIVE take_bytes(_, _)
take_bytes(b, n) ==
    IF b = <<>> \/ n <= 0 THEN <<>>
    ELSE IF Head(b).count <= n
         THEN <<Head(b)>> \o take_bytes(Tail(b), n - Head(b).count)
         ELSE <<Run(Head(b).byte, n)>>

RECURSIVE drop_bytes(_, _)
drop_bytes(b, n) ==
    IF b = <<>> THEN <<>>
    ELSE IF n <= 0 THEN b
    ELSE IF Head(b).count <= n THEN drop_bytes(Tail(b), n - Head(b).count)
    ELSE <<Run(Head(b).byte, Head(b).count - n)>> \o Tail(b)

\* Cursor::write_all(&zero_buffer[0..n]) at position pos <= len: the n
\* bytes from pos on are replaced by zeroes, the vector growing when the
\* write goes beyond its end.
write_zeroes(b, pos, n) ==
    normalise(take_bytes(b, pos) \o <<Run(0, n)>> \o drop_bytes(b, pos + n))

\* Variant of amount_full_buffer_writes that rounds up.
amount_full_buffer_writes_rounded_up(len) ==
    (len + zero_buffer_len - 1) \div zero_buffer_len

\* let amount_full_buffer_writes = len / zero_buffer_len;
amount_full_buffer_writes(len) == len \div zero_buffer_len

\* let remaining_bytes_to_overwrite = len % zero_buffer_len;
remaining_bytes_to_overwrite(len) == len % zero_buffer_len

\* The buffers and the lengths tried: none, some or MaxChunks full chunks,
\* with a few bytes more or one byte less.
OwBuffers ==
    {normalise(<<Run(4, c * zero_buffer_len + r)>>) :
        c \in 0..MaxChunks, r \in {0, 3}}
    \cup {<<Run(4, 2), Run(7, c * zero_buffer_len + 1)>> : c \in 0..MaxChunks}
OwLengths ==
    {c * zero_buffer_len + r :
        c \in 0..MaxChunks, r \in {0, 1, 3, 4, zero_buffer_len - 1}}

\* A call: the buffer on entry (old) and now (buf), the position of the
\* cursor, the loop counter, the bytes written so far; fallible says
\* whether the writer is one whose writes can fail (a Cursor over a Vec
\* never does).
InitOverwrite ==
    /\ \E b \in OwBuffers, l \in OwLengths, f \in BOOLEAN :
          call = [fn |-> "overwrite_with_zeroes", old |-> b, buf |-> b,
                  len |-> l, fallible |-> f, pos |-> buf_len(b), i |-> 0,
                  written |-> 0, ret |-> PendingRet]
    /\ pc = "ow_start"
    /\ find_options =
         [options |-> <<>>, max_num_results |-> USIZE_MAX,
          max_search_depth |-> USIZE_MAX, min_depth_from_start |-> 0,
          ignore |-> "None", ignore_hidden_files |-> FALSE,
          follow_symlinks |-> FALSE]
    /\ ev = IdleEv
    /\ search_criterias = <<>>
    /\ paths_to_search_in = <<>>
    /\ paths = <<>>
    /\ k = 1
    /\ entries = <<>>
    /\ slot = <<>>
    /\ results = <<>>
    /\ ret = <<>>
    /\ history = {}

\* buf.seek(SeekFrom::Start(0))
OwSeek ==
    /\ pc = "ow_start"
    /\ call' = [call EXCEPT !.pos = 0]
    /\ pc' = "ow_loop"
    /\ UNCHANGED call_unchanged

\* One iteration of the for loop: buf.write_all(&zero_buffer)?
OwWriteFull ==
    /\ pc = "ow_loop"
    /\ call.i < amount_full_buffer_writes(call.len)
    /\ call' = [call EXCEPT
                  !.buf = write_zeroes(@, call.pos, zero_buffer_len),
                  !.pos = @ + zero_buffer_len,
                  !.written = @ + zero_buffer_len,
                  !.i = @ + 1]
    /\ UNCHANGED <<call_unchanged, pc>>

\* After the loop: the remainder, when there is one.
OwWriteRemainder ==
    /\ pc = "ow_loop"
    /\ call.i >= amount_full_buffer_writes(call.len)
    /\ LET n == remaining_bytes_to_overwrite(call.len)
       IN  call' = IF n > 0
                   THEN [call EXCEPT !.buf = write_zeroes(@, call.pos, n),
                                     !.pos = @ + n,
                                     !.written = @ + n]
                   ELSE call
    /\ pc' = "ow_flush"
    /\ UNCHANGED call_unchanged

\* buf.flush()?; Ok(())
OwFlush ==
    /\ pc = "ow_flush"
    /\ call' = [call EXCEPT !.ret = [tag |-> "Ok"]]
    /\ pc' = "ow_done"
    /\ UNCHANGED call_unchanged

\* A write_all or the flush fails: the ? returns the io::Error.
OwFail ==
    /\ pc \in {"ow_loop", "ow_flush"}
    /\ call.fallible
    /\ call' = [call EXCEPT !.ret = [tag |-> "Err"]]
    /\ pc' = "ow_done"
    /\ UNCHANGED call_unchanged

NextOverwrite ==
    \/ OwSeek
    \/ OwWriteFull
    \/ OwWriteRemainder
    \/ OwFlush
    \/ OwFail

SpecOverwrite == InitOverwrite /\ [][NextOverwrite]_vars

(***************************************************************************)
(* rename: the tokenizer (tokenizer.rs), the options of a template, the    *)
(* Parser (parser.rs) and rename_files (mod.rs).  Texts are sequences of   *)
(* characters.                                                             *)
(***************************************************************************)
Braces == {"{", "}"}

\* The length of the longest beginning of the text without a brace.
RECURSIVE constant_len(_)
constant_len(text) ==
    IF text = <<>> \/ Head(text) \in Braces THEN 0
    ELSE 1 + constant_len(Tail(text))

\* The logos lexer of FilenameToken: "[^{}]+" is a Constant, "\{[^{}]*\}" a
\* Variable, anything else (a brace without its partner) an Error.  Each
\* token comes with the slice of the text it matched.
RECURSIVE lexer(_)
lexer(text) ==
    IF text = <<>> THEN <<>>
    ELSE IF Head(text) \notin Braces
    THEN LET n == constant_len(text)
         IN  <<[tok |-> "Constant", slice |-> SubSeq(text, 1, n)]>>
             \o lexer(SubSeq(text, n + 1, Len(text)))
    ELSE LET n == constant_len(Tail(text))
         IN  IF Head(text) = "{" /\ n + 2 <= Len(text) /\ text[n + 2] = "}"
             THEN <<[tok |-> "Variable", slice |-> SubSeq(text, 1, n + 2)]>>
                  \o lexer(SubSeq(text, n + 3, Len(text)))
             ELSE <<[tok |-> "Error", slice |-> <<Head(text)>>]>>
                  \o lexer(Tail(text))

\* The callback of the Variable token: |var| &var[1..var.len()], the slice
\* without its first character.
variable_callback(var) == SubSeq(var, 2, Len(var))

\* FilenameToken::tokenize(text)
tokenize(text) ==
    LET raw == lexer(text)
    IN  [i \in 1..Len(raw) |->
            IF raw[i].tok = "Variable"
            THEN [tok |-> "Variable", slice |-> variable_callback(raw[i].slice)]
            ELSE raw[i]]

\* The arms of the match of FilenameVariable::from_text.
VariableTable ==
    {
     [name |->
        <<"f", "i", "l", "e", "n", "a", "m", "e">>,
      var |-> "Filename"],
     [name |->
        <<"f", "i", "l", "e", "n", "a", "m", "e", "_", "e", "x", "t",
          "e", "n", "s", "i", "o", "n">>,
      var |-> "FilenameExtension"],
     [name |->
        <<"f", "i", "l", "e", "n", "a", "m", "e", "_", "b", "a", "s",
          "e">>,
      var |-> "FilenameBase"],
     [name |->
        <<"f", "i", "l", "e", "s", "i", "z", "e">>,
      var |-> "FileSize"],
     [name |->
        <<"i", "n", "c", "r", "e", "m", "e", "n", "t", "i", "n", "g",
          "_", "n", "u", "m", "b", "e", "r">>,
      var |-> "IncrementingNumber"]
    }

VariableNames == {row.name : row \in VariableTable}

\* FilenameVariable::from_text(var)
FilenameVariable_from_text(var) ==
    IF var \in VariableNames
    THEN [tag |-> "Ok",
          val |-> (CHOOSE row \in VariableTable : row.name = var).var]
    ELSE [tag |-> "Err", err |-> "UnknownVariable"]

Constant(string) == [part |-> "Constant", text |-> string]
Variable(variable) == [part |-> "Variable", var |-> variable]

\* FilenamePart::from_text(text): UnknownError when a token is an Error;
\* otherwise the tokens are mapped in order, the first variable that
\* from_text does not know giving the error of the whole.
FilenamePart_from_text(text) ==
    LET tokens == tokenize(text)
    IN  IF \E i \in 1..Len(tokens) : tokens[i].tok = "Error"
        THEN [tag |-> "Err", err |-> "UnknownError"]
        ELSE IF \E i \in 1..Len(tokens) :
                    /\ tokens[i].tok = "Variable"
                    /\ FilenameVariable_from_text(tokens[i].slice).tag = "Err"
        THEN [tag |-> "Err", err |-> "UnknownVariable"]
        ELSE [tag |-> "Ok",
              val |-> [i \in 1..Len(tokens) |->
                         IF tokens[i].tok = "Constant"
                         THEN Constant(tokens[i].slice)
                         ELSE Variable(FilenameVariable_from_text(
                                           tokens[i].slice).val)]]

\* str::starts_with()
starts_with(s, prefix) ==
    Len(prefix) <= Len(s) /\ SubSeq(s, 1, Len(prefix)) = prefix

\* str::split(c).collect(): the pieces between the occurrences of c.
RECURSIVE split(_, _)
split(s, c) ==
    IF \A i \in 1..Len(s) : s[i] # c THEN <<s>>
    ELSE LET i == CHOOSE n \in 1..Len(s) :
                    s[n] = c /\ \A m \in 1..(n - 1) : s[m] # c
         IN  <<SubSeq(s, 1, i - 1)>> \o split(SubSeq(s, i + 1, Len(s)), c)

\* str::splitn(2, '|').collect()
splitn_2_pipe(s) ==
    LET pieces == split(s, "|")
    IN  IF Len(pieces) = 1 THEN pieces
        ELSE <<pieces[1], SubSeq(s, Len(pieces[1]) + 2, Len(s))>>

incrementing_number_starts_at ==
    <<"i", "n", "c", "r", "e", "m", "e", "n", "t", "i", "n", "g",
    "_", "n", "u", "m", "b", "e", "r", "_", "s", "t", "a", "r",
    "t", "s", "_", "a", "t">>

\* FilenameOptions::parse_options(options): the options in order, from the
\* default (incrementing_number_starts_at: 0).  The guard of the only arm
\* looks at the option as given, not at the trimmed one.
RECURSIVE parse_options(_, _)
parse_options(options, filename_options) ==
    IF options = <<>> THEN [tag |-> "Ok", val |-> filename_options]
    ELSE LET option == Head(options)
             value == splitn_2(option)
             start_num == parse_int(value[2], TRUE)
         IN  IF ~starts_with(option, incrementing_number_starts_at)
             THEN [tag |-> "Err", err |-> "UnknownOption"]
             ELSE IF Len(value) < 2 \/ ~start_num.ok
             THEN [tag |-> "Err", err |-> "MalformedOption"]
             ELSE parse_options(Tail(options),
                      [incrementing_number_starts_at |-> start_num.val])

FilenameOptions_default == [incrementing_number_starts_at |-> 0]

\* FilenameOptions::new(text)
FilenameOptions_new(text) ==
    parse_options(split(text, "|"), FilenameOptions_default)

\* isize::to_string() and u64::to_string(): the decimal digits, '-' in
\* front of a negative number.
DigitChar(d) ==
    CASE d = 0 -> "0" [] d = 1 -> "1" [] d = 2 -> "2" [] d = 3 -> "3"
      [] d = 4 -> "4" [] d = 5 -> "5" [] d = 6 -> "6" [] d = 7 -> "7"
      [] d = 8 -> "8" [] d = 9 -> "9"

RECURSIVE to_string(_)
to_string(n) ==
    IF n < 0 THEN <<"-">> \o to_string(0 - n)
    ELSE IF n < 10 THEN <<DigitChar(n)>>
    ELSE to_string(n \div 10) \o <<DigitChar(n % 10)>>

\* A file to rename: the last component of its path (".." has no file
\* name), the length its metadata gives (-1: metadata() fails) and whether
\* fs::rename succeeds on it.
RenamePath(name, len, renamable) ==
    [name |-> name, len |-> len, renamable |-> renamable]

\* Path::file_name()
file_name(path) ==
    IF path.name = <<".", ".">> THEN None ELSE Some(path.name)

\* The position of the last '.' of a file name that splits it in a stem and
\* an extension: 0 when there is none, or only one in front of the name.
last_dot(name) ==
    LET dots == {i \in 2..Len(name) : name[i] = "."}
    IN  IF dots = {} THEN 0
        ELSE CHOOSE i \in dots : \A j \in dots : j <= i

\* Path::file_stem()
file_stem(path) ==
    IF file_name(path) = None THEN None
    ELSE IF last_dot(path.name) = 0 THEN Some(path.name)
    ELSE Some(SubSeq(path.name, 1, last_dot(path.name) - 1))

\* Path::extension()
extension(path) ==
    IF file_name(path) = None \/ last_dot(path.name) = 0 THEN None
    ELSE Some(SubSeq(path.name, last_dot(path.name) + 1, Len(path.name)))

\* Parser::parse_filename_variable(variable, path): the text of the
\* variable, or the error, and the parser after the call.
parse_filename_variable(self, variable, path) ==
    CASE variable = "Filename" ->
            [tag |-> IF file_name(path) = None THEN "Err" ELSE "Ok",
             val |-> IF file_name(path) = None THEN <<>> ELSE path.name,
             err |-> "FilenameNoBase", self |-> self]
      [] variable = "FilenameBase" ->
            [tag |-> IF file_stem(path) = None THEN "Err" ELSE "Ok",
             val |-> IF file_stem(path) = None THEN <<>>
                     ELSE file_stem(path).path,
             err |-> "NoFilename", self |-> self]
      [] variable = "FilenameExtension" ->
            [tag |-> "Ok",
             val |-> IF extension(path) = None THEN <<>>
                     ELSE extension(path).path,
             err |-> "", self |-> self]
      [] variable = "FileSize" ->
            [tag |-> IF path.len < 0 THEN "Err" ELSE "Ok",
             val |-> IF path.len < 0 THEN <<>> ELSE to_string(path.len),
             err |-> "IOError", self |-> self]
      [] variable = "IncrementingNumber" ->
            [tag |-> "Ok",
             val |-> to_string(self.incrementing_number),
             err |-> "",
             self |-> [incrementing_number |-> self.incrementing_number + 1]]

\* Parser::parse_filename(tokens, path): the parts in order, appended to
\* parsed_filename; the first variable that fails ends the call with its
\* error, the parser keeping what the variables before it did to it.
RECURSIVE parse_filename_loop(_, _, _, _)
parse_filename_loop(self, tokens, path, parsed_filename) ==
    IF tokens = <<>>
    THEN [tag |-> "Ok", val |-> parsed_filename, err |-> "", self |-> self]
    ELSE IF Head(tokens).part = "Constant"
    THEN parse_filename_loop(self, Tail(tokens), path,
                             parsed_filename \o Head(tokens).text)
    ELSE LET r == parse_filename_variable(self, Head(tokens).var, path)
         IN  IF r.tag = "Err" THEN r
             ELSE parse_filename_loop(r.self, Tail(tokens), path,
                                      parsed_filename \o r.val)

parse_filename(self, tokens, path) ==
    parse_filename_loop(self, tokens, path, <<>>)

\* The files rename_files is tried on: a name with an extension, a name
\* without one whose metadata cannot be read, a path that ends with "..",
\* and a file fs::rename fails on.
RenamePaths ==
    {RenamePath(<<"a", ".", "t">>, 12, TRUE),
     RenamePath(<<"b">>, -1, TRUE),
     RenamePath(<<".", ".">>, 0, TRUE),
     RenamePath(<<"c">>, 3, FALSE)}

\* The templates: two pieces, each nothing, a constant, a variable in
\* braces (known or unknown, or nothing between the braces) or a lone
\* brace.
InBraces(name) == <<"{">> \o name \o <<"}">>
TemplatePieces ==
    {<<>>, <<"n">>, <<"{">>, <<"}">>, InBraces(<<>>), InBraces(<<"x">>)}
        \cup {InBraces(name) : name \in VariableNames}
TemplateTexts == {p \o q : p \in TemplatePieces, q \in TemplatePieces}

\* What follows the text of the template: nothing, or '|' and options.
TemplateOptions ==
    {<<>>,
     <<"|">> \o incrementing_number_starts_at \o <<"=", "5">>,
     <<"|">> \o incrementing_number_starts_at \o <<"=", "-", "2">>,
     <<"|">> \o incrementing_number_starts_at,
     <<"|">> \o incrementing_number_starts_at \o <<"=", "x">>,
     <<"|", " ">> \o incrementing_number_starts_at \o <<"=", "5">>,
     <<"|", "x">>,
     <<"|">> \o incrementing_number_starts_at \o <<"=", "5">>
        \o <<"|">> \o incrementing_number_starts_at \o <<"=", "7">>}

InitRename ==
    /\ pc = "rn_start"
    /\ find_options =
         [options |-> <<>>, max_num_results |-> USIZE_MAX,
          max_search_depth |-> USIZE_MAX, min_depth_from_start |-> 0,
          ignore |-> "None", ignore_hidden_files |-> FALSE,
          follow_symlinks |-> FALSE]
    /\ ev = IdleEv
    /\ search_criterias = <<>>
    /\ paths_to_search_in = <<>>
    /\ paths = <<>>
    /\ k = 1
    /\ entries = <<>>
    /\ slot = <<>>
    /\ results = <<>>
    /\ ret = <<>>
    /\ history = {}
    /\ call \in [fn : {"rename_files"},
                 files_to_rename : SeqsUpTo(RenamePaths, MaxFiles),
                 new_filename_template :
                     {t \o o : t \in TemplateTexts,
                               o \in TemplateOptions},
                 filename_template : {<<>>},
                 parser : {[incrementing_number |-> 0]},
                 i : {1},
                 log : {<<>>},
                 ret : {PendingRet}]

\* rename_files up to its loop: the template split at the first '|', the
\* text tokenized, the options parsed, the parser built.  An error of the
\* template or of the options is returned.
RenameStart ==
    /\ pc = "rn_start"
    /\ LET text_template_and_options == splitn_2_pipe(call.new_filename_template)
           filename_template == FilenamePart_from_text(text_template_and_options[1])
           options == IF Len(text_template_and_options) = 2
                      THEN FilenameOptions_new(text_template_and_options[2])
                      ELSE [tag |-> "Ok", val |-> FilenameOptions_default]
       IN  IF filename_template.tag = "Err"
           THEN /\ call' = [call EXCEPT !.ret =
                        [tag |-> "Err", kind |-> "TokenizeError",
                         err |-> filename_template.err]]
                /\ pc' = "rn_done"
           ELSE IF options.tag = "Err"
           THEN /\ call' = [call EXCEPT !.ret =
                        [tag |-> "Err", kind |-> "OptionsParsingError",
                         err |-> options.err]]
                /\ pc' = "rn_done"
           ELSE /\ call' = [call EXCEPT
                        !.filename_template = filename_template.val,
                        !.parser = [incrementing_number |->
                            options.val.incrementing_number_starts_at]]
                /\ pc' = "rn_loop"
    /\ UNCHANGED call_unchanged

\* One iteration of the loop of rename_files: the new name of the file is
\* parsed; a file whose name cannot be parsed is skipped, the others are
\* renamed, and a failure of fs::rename is only logged.
RenameFile ==
    /\ pc = "rn_loop"
    /\ call.i <= Len(call.files_to_rename)
    /\ LET path == call.files_to_rename[call.i]
           filename_new == parse_filename(call.parser, call.filename_template, path)
       IN  call' = [call EXCEPT
                !.parser = filename_new.self,
                !.i = call.i + 1,
                !.log = Append(call.log,
                    [path |-> path,
                     parsed |-> filename_new.tag = "Ok",
                     filename_new |-> filename_new.val,
                     renamed |-> filename_new.tag = "Ok" /\ path.renamable])]
    /\ pc' = pc
    /\ UNCHANGED call_unchanged

\* The end of the loop: Ok(()).
RenameReturn ==
    /\ pc = "rn_loop"
    /\ call.i > Len(call.files_to_rename)
    /\ call' = [call EXCEPT !.ret = [tag |-> "Ok", kind |-> "", err |-> ""]]
    /\ pc' = "rn_done"
    /\ UNCHANGED call_unchanged

NextRename == RenameStart \/ RenameFile \/ RenameReturn

SpecRename == InitRename /\ [][NextRename]_vars

(***************************************************************************)
(* duplicates: find_duplicate_files and find_duplicate_files_hash, run on  *)
(* the same list of files.                                                 *)
(***************************************************************************)
\* A file to check: its path, its bytes, whether its metadata can be got
\* and whether it can be read.
DupFile(path, bytes, has_metadata, readable) ==
    [path |-> path, bytes |-> bytes, has_metadata |-> has_metadata,
     readable |-> readable]

\* get_len_of_file(path)
get_len_of_file(file) ==
    IF file.has_metadata THEN [tag |-> "Ok", val |-> Len(file.bytes)]
    ELSE [tag |-> "Err", val |-> 0]

RECURSIVE byte_sum(_)
byte_sum(bytes) ==
    IF bytes = <<>> THEN 0 ELSE Head(bytes) + byte_sum(Tail(bytes))

\* crc32_from_bytes(bytes): a checksum of 32 bits, a function of the bytes
\* on which different contents can collide.  The hasher is a library; the
\* model takes the sum of the bytes, which collides on the files below and
\* stays far below 2^32 on them.
crc32_from_bytes(bytes) == byte_sum(bytes)

\* fs::read(path)
read(file) ==
    IF file.readable THEN [tag |-> "Ok", val |-> file.bytes]
    ELSE [tag |-> "Err", val |-> <<>>]

\* crc32_of_file(path)
crc32_of_file(file) ==
    IF read(file).tag = "Ok"
    THEN [tag |-> "Ok", val |-> crc32_from_bytes(read(file).val)]
    ELSE [tag |-> "Err", val |-> 0]

\* The filter_map at the start of both functions: the files whose length
\* can be got, in order, each with an empty cache; the others are errors.
RECURSIVE with_len(_)
with_len(files) ==
    IF files = <<>> THEN <<>>
    ELSE (IF get_len_of_file(Head(files)).tag = "Ok"
          THEN <<[len |-> get_len_of_file(Head(files)).val,
                  file |-> Head(files), cache |-> None]>>
          ELSE <<>>) \o with_len(Tail(files))

RECURSIVE len_errors(_)
len_errors(files) ==
    IF files = <<>> THEN <<>>
    ELSE (IF get_len_of_file(Head(files)).tag = "Ok" THEN <<>>
          ELSE <<Head(files).path>>) \o len_errors(Tail(files))

\* FileWithContents::get_contents(): the stored contents, or the file read.
get_contents(self) ==
    IF self.cache # None THEN [tag |-> "Ok", val |-> self.cache.path]
    ELSE read(self.file)

\* FileWithHash::get_hash(): the stored hash, or the hash of the file.
get_hash(self) ==
    IF self.cache # None THEN [tag |-> "Ok", val |-> self.cache.path]
    ELSE crc32_of_file(self.file)

\* Variant of same_len that lets every pair of files through.
same_len_always(file, other_file) == TRUE

\* The test at the head of the inner loop of both functions.
same_len(file, other_file) == file.len = other_file.len

\* One pass of the inner loop of find_duplicate_files on files i and j.
contents_pair(st) ==
    LET i == st.i
        j == st.j
        contents == get_contents(st.files[i])
        other_contents == get_contents(st.files[j])
    IN  IF ~same_len(st.files[i], st.files[j]) THEN st
        ELSE IF contents.tag = "Err"
        THEN [st EXCEPT !.errors = Append(@, st.files[i].file.path)]
        ELSE IF other_contents.tag = "Err"
        THEN [st EXCEPT !.errors = Append(@, st.files[j].file.path),
                        !.files[i].cache = None]
        ELSE [st EXCEPT
                !.duplicates =
                    IF contents.val = other_contents.val
                    THEN Append(@, <<st.files[i].file.path,
                                     st.files[j].file.path>>)
                    ELSE @,
                !.files[i].cache = Some(contents.val),
                !.files[j].cache = Some(other_contents.val)]

\* One pass of the inner loop of find_duplicate_files_hash on files i and
\* j; a hash that has been calculated stays with its file.
hash_pair(st) ==
    LET i == st.i
        j == st.j
        hash == get_hash(st.files[i])
        with_hash == [st EXCEPT !.files[i].cache = Some(hash.val)]
        other_hash == get_hash(st.files[j])
    IN  IF ~same_len(st.files[i], st.files[j]) THEN st
        ELSE IF hash.tag = "Err"
        THEN [st EXCEPT !.errors = Append(@, st.files[i].file.path)]
        ELSE IF other_hash.tag = "Err"
        THEN [with_hash EXCEPT !.errors = Append(@, st.files[j].file.path)]
        ELSE [with_hash EXCEPT
                !.duplicates =
                    IF hash.val = other_hash.val
                    THEN Append(@, <<st.files[i].file.path,
                                     st.files[j].file.path>>)
                    ELSE @,
                !.files[j].cache = Some(other_hash.val)]

\* The files the two functions are tried on: two files with the same
\* bytes, one of the same length and checksum with other bytes, one of
\* another length with the same checksum, one of the same length with
\* another checksum, one that cannot be read and one without metadata.
DupFiles ==
    {DupFile("p1", <<1, 2>>, TRUE, TRUE),
     DupFile("p2", <<1, 2>>, TRUE, TRUE),
     DupFile("p3", <<2, 1>>, TRUE, TRUE),
     DupFile("p4", <<3>>, TRUE, TRUE),
     DupFile("p5", <<1, 3>>, TRUE, TRUE),
     DupFile("p6", <<1, 2>>, TRUE, FALSE),
     DupFile("p7", <<1, 2>>, FALSE, TRUE)}

DupState(at) ==
    [at |-> at, files |-> <<>>, i |-> 1, j |-> 2, duplicates |-> <<>>,
     errors |-> <<>>]

InitDuplicates ==
    /\ pc = "dup"
    /\ call \in [fn : {"find_duplicate_files"},
                 files_to_check : SeqsUpTo(DupFiles, MaxDupFiles),
                 contents : {DupState("start")},
                 hash : {DupState("start")}]
    /\ find_options =
         [options |-> <<>>, max_num_results |-> USIZE_MAX,
          max_search_depth |-> USIZE_MAX, min_depth_from_start |-> 0,
          ignore |-> "None", ignore_hidden_files |-> FALSE,
          follow_symlinks |-> FALSE]
    /\ ev = IdleEv
    /\ search_criterias = <<>>
    /\ paths_to_search_in = <<>>
    /\ paths = <<>>
    /\ k = 1
    /\ entries = <<>>
    /\ slot = <<>>
    /\ results = <<>>
    /\ ret = <<>>
    /\ history = {}

\* The start of either function, up to its loops.
dup_start(st, files_to_check) ==
    [st EXCEPT !.at = "loop", !.files = with_len(files_to_check),
               !.errors = len_errors(files_to_check)]

\* The step from one pass of the loops to the next: j runs from i + 1 to
\* the end of the files, then i moves on.
dup_advance(st, clear) ==
    IF st.j < Len(st.files) THEN [st EXCEPT !.j = @ + 1]
    ELSE [st EXCEPT !.i = @ + 1, !.j = st.i + 2,
                    !.files[st.i].cache = IF clear THEN None ELSE @]

ContentsStart ==
    /\ pc = "dup"
    /\ call.contents.at = "start"
    /\ call' = [call EXCEPT
                  !.contents = dup_start(@, call.files_to_check)]
    /\ pc' = pc
    /\ UNCHANGED call_unchanged

\* find_duplicate_files: one pass of the inner loop; after the last j of
\* an i the contents stored for file i are dropped.
ContentsPair ==
    /\ pc = "dup"
    /\ call.contents.at = "loop"
    /\ call.contents.i <= Len(call.contents.files)
    /\ call' = [call EXCEPT !.contents =
                  IF @.j <= Len(@.files)
                  THEN dup_advance(contents_pair(@), TRUE)
                  ELSE [@ EXCEPT !.i = @ + 1, !.j = call.contents.i + 2,
                                 !.files[call.contents.i].cache = None]]
    /\ pc' = pc
    /\ UNCHANGED call_unchanged

ContentsReturn ==
    /\ pc = "dup"
    /\ call.contents.at = "loop"
    /\ call.contents.i > Len(call.contents.files)
    /\ call' = [call EXCEPT !.contents.at = "done"]
    /\ pc' = pc
    /\ UNCHANGED call_unchanged

HashStart ==
    /\ pc = "dup"
    /\ call.hash.at = "start"
    /\ call' = [call EXCEPT !.hash = dup_start(@, call.files_to_check)]
    /\ pc' = pc
    /\ UNCHANGED call_unchanged

\* find_duplicate_files_hash: one pass of the inner loop.
HashPair ==
    /\ pc = "dup"
    /\ call.hash.at = "loop"
    /\ call.hash.i <= Len(call.hash.files)
    /\ call' = [call EXCEPT !.hash =
                  IF @.j <= Len(@.files)
                  THEN dup_advance(hash_pair(@), FALSE)
                  ELSE [@ EXCEPT !.i = @ + 1, !.j = call.hash.i + 2]]
    /\ pc' = pc
    /\ UNCHANGED call_unchanged

HashReturn ==
    /\ pc = "dup"
    /\ call.hash.at = "loop"
    /\ call.hash.i > Len(call.hash.files)
    /\ call' = [call EXCEPT !.hash.at = "done"]
    /\ pc' = pc
    /\ UNCHANGED call_unchanged

NextDuplicates ==
    \/ ContentsStart \/ ContentsPair \/ ContentsReturn
    \/ HashStart \/ HashPair \/ HashReturn

SpecDuplicates == InitDuplicates /\ [][NextDuplicates]_vars

(***************************************************************************)
(* A single call of Condition::evaluate, on every condition and entry.     *)
(***************************************************************************)
InitEval ==
    /\ ev \in [cond : EvalConds, entry : Entries, out : {PendingEval}]
    /\ paths_to_search_in = <<>>
    /\ find_options =
         [options |-> <<>>, max_num_results |-> USIZE_MAX,
          max_search_depth |-> USIZE_MAX, min_depth_from_start |-> 0,
          ignore |-> "None", ignore_hidden_files |-> FALSE,
          follow_symlinks |-> FALSE]
    /\ pc = "idle"
    /\ paths = <<>>
    /\ k = 1
    /\ entries = <<>>
    /\ slot = <<>>
    /\ results = <<>>
    /\ ret = <<>>
    /\ history = {}
    /\ search_criterias = <<>>
    /\ call = NoCall

EvaluateCall ==
    /\ pc = "idle"
    /\ ev.out = PendingEval
    /\ ev' = [ev EXCEPT !.out = evaluate(ev.cond, ev.entry)]
    /\ UNCHANGED <<find_vars, search_criterias, call>>

NextEval == EvaluateCall

SpecEval == InitEval /\ [][NextEval]_vars

(***************************************************************************)
(* Properties of Condition::evaluate, checked under SpecEval.              *)
(***************************************************************************)
\* The evaluate() call of the state has returned.
Evaluated == ev.out # PendingEval
\* What the left and the right operand of the condition of the state
\* evaluate to on the entry of the state, each taken alone.
LeftAlone == evaluate(ev.cond.c1, ev.entry)
RightAlone == evaluate(ev.cond.c2, ev.entry)

\* C1: when A evaluates to Ok(false), evaluate(And(A, B)) returns Ok(false)
\* and no matcher of B is invoked: the matchers invoked are exactly those
\* the evaluation of A invokes.
C1_AndShortCircuit ==
    (Evaluated /\ ev.cond.op = "And" /\ LeftAlone.res = OkFalse)
        => (ev.out.res = OkFalse /\ ev.out.trace = LeftAlone.trace)

\* C1 witness: And(A, B) has been evaluated with A false on an entry on
\* which B alone would have failed.
C1_Witness ==
    /\ Evaluated
    /\ ev.cond.op = "And"
    /\ LeftAlone.res = OkFalse
    /\ RightAlone.res = ErrUnit

\* C2: when A evaluates to Ok(true), evaluate(Or(A, B)) returns Ok(true)
\* and no matcher of B is invoked; when A evaluates to Ok(false) the result
\* is the result of B, evaluated after A.
C2_OrShortCircuit ==
    (Evaluated /\ ev.cond.op = "Or")
        => /\ LeftAlone.res = OkTrue
                => (ev.out.res = OkTrue /\ ev.out.trace = LeftAlone.trace)
           /\ LeftAlone.res = OkFalse
                => /\ ev.out.res = RightAlone.res
                   /\ ev.out.trace = LeftAlone.trace \o RightAlone.trace

\* C2 witness: Or(A, B) has been evaluated with A true on an entry on which
\* B alone would have failed.
C2_Witness ==
    /\ Evaluated
    /\ ev.cond.op = "Or"
    /\ LeftAlone.res = OkTrue
    /\ RightAlone.res = ErrUnit

\* C3: when the left operand of And(A, B) or Or(A, B) evaluates to an
\* error, evaluate returns that error and no matcher of B is invoked,
\* whatever B would have returned.
C3_LeftErrorPropagates ==
    (Evaluated /\ ev.cond.op \in {"And", "Or"} /\ LeftAlone.res = ErrUnit)
        => (ev.out.res = ErrUnit /\ ev.out.trace = LeftAlone.trace)

\* C3 witness: And(A, B) has been evaluated with A failing on an entry on
\* which B alone would have matched.
C3_Witness ==
    /\ Evaluated
    /\ ev.cond.op = "And"
    /\ LeftAlone.res = ErrUnit
    /\ RightAlone.res = OkTrue

\* The criteria that compare a number of the metadata with an operand, the
\* number such a criterion reads from an entry, and its operand.
IsNumeric(c) == c.crit \in {"Filesize", "Modified", "Accessed", "Created"}
MetadataValue(c, e) ==
    CASE c.crit = "Filesize" -> e.len
      [] c.crit = "Modified" -> e.mtime
      [] c.crit = "Accessed" -> e.atime
      [] c.crit = "Created" -> e.btime
OperandOf(c) == IF c.crit = "Filesize" THEN c.size ELSE c.secs
\* The entry lets the criterion read its number.
Readable(c, e) == e.meta_ok /\ (c.crit = "Created" => e.has_btime)

\* C18: the bounds are exclusive.  On an entry whose metadata can be read,
\* Over(n) and After(t) hold iff the value is greater than the operand,
\* Under(n) and Before(t) iff it is less; a value equal to the operand
\* satisfies Exact and At and neither of the two bounds.
C18_BoundsExclusive ==
    ( /\ Evaluated
      /\ ev.cond.op = "Value"
      /\ IsNumeric(ev.cond.v)
      /\ Readable(ev.cond.v, ev.entry) )
    => LET c == ev.cond.v
           x == MetadataValue(c, ev.entry)
           n == OperandOf(c)
       IN  /\ ev.out.res \in {OkTrue, OkFalse}
           /\ c.mode \in {"Over", "After"} => (ev.out.res = OkTrue <=> x > n)
           /\ c.mode \in {"Under", "Before"} => (ev.out.res = OkTrue <=> x < n)
           /\ x = n => (ev.out.res = OkTrue <=> c.mode \in {"Exact", "At"})

\* C18 witness: Filesize::Over(n) was evaluated on an entry of exactly n
\* bytes and is false.
C18_Witness ==
    /\ Evaluated
    /\ ev.cond.op = "Value"
    /\ ev.cond.v.crit = "Filesize"
    /\ ev.cond.v.mode = "Over"
    /\ ev.entry.meta_ok
    /\ ev.entry.len = ev.cond.v.size
    /\ ev.out.res = OkFalse

(***************************************************************************)
(* Properties of find, checked under Spec.                                 *)
(***************************************************************************)
\* The range of a sequence.
Range(q) == {q[i] : i \in 1..Len(q)}

\* The closure call recorded by h evaluated the conditions and one of the
\* evaluate() calls returned an error.
Errored(h) ==
    h.stage = "evaluated" /\ \E j \in 1..Len(h.evals) : h.evals[j].res = ErrUnit

\* The walk of a canonical root under the depth bounds of find_options.
WalkOf(root) ==
    WalkDir(root, find_options.min_depth_from_start,
            find_options.max_search_depth)

\* Whether an item of a walk is a match: it is no walk error, it passes the
\* ignore and hidden filters and every condition evaluates to Ok(true).
IsMatch(item) == filter_map_closure(item, find_options).out.some

\* The paths of the matches among the first n items of a walk, in walk order.
RECURSIVE MatchPaths(_, _)
MatchPaths(w, n) ==
    IF n = 0 THEN <<>>
    ELSE MatchPaths(w, n - 1) \o (IF IsMatch(w[n]) THEN <<w[n].path>> ELSE <<>>)

\* The matches of a root argument in walk order: none when it does not
\* canonicalize.
RootArgMatches(arg) ==
    LET c == canonicalize(arg)
    IN  IF c.ok THEN MatchPaths(WalkOf(c.path), Len(WalkOf(c.path))) ELSE <<>>

\* The matches of the first n root arguments, concatenated in root order.
RECURSIVE AllMatches(_, _)
AllMatches(args, n) ==
    IF n = 0 THEN <<>>
    ELSE AllMatches(args, n - 1) \o RootArgMatches(args[n])

\* The number of matches of the first n canonicalized roots.
RECURSIVE CumulativeMatches(_)
CumulativeMatches(n) ==
    IF n = 0 THEN 0
    ELSE CumulativeMatches(n - 1)
         + Len(MatchPaths(WalkOf(paths[n]), Len(WalkOf(paths[n]))))

\* Root r of the canonicalized list has been walked.
Walked(r) == r < k \/ (r = k /\ pc \in {"par", "break", "done"})

\* C4: an entry for which the evaluation of the conditions produces an
\* error is never a match: its closure returns None, its path is not in
\* results and not in the list find returns.
C4_ErrorNeverMatches ==
    \A h \in history :
        Errored(h) => /\ ~h.out.some
                      /\ h.item.path \notin Range(results)
                      /\ pc = "done" => h.item.path \notin Range(ret[1])

\* C4 witness: find has returned after evaluating, on some entry, a
\* condition Not(c) whose child c failed.
C4_Witness ==
    /\ pc = "done"
    /\ \E h \in history :
          /\ Errored(h)
          /\ find_options.options[Len(h.evals)].op = "Not"

\* The components find returns besides the matches hold an error list
\* where the pair (path, error) of every failed entry is found.
ReturnsError(path, e) ==
    Len(ret) >= 2 /\ <<path, e>> \in Range(ret[2])

\* C5 as claimed: once find has returned, for every entry whose condition
\* evaluation yielded Err(e) the pair (path of the entry, e) is in the error
\* list find returned.
C5_Claim_ErrorListReturned ==
    pc = "done" =>
        \A h \in history : Errored(h) => ReturnsError(h.item.path, ErrUnit)

\* The error of the evaluate() call that failed in the closure call h.
ErrorOf(h) == h.evals[Len(h.evals)].res

\* The criterion whose matcher failed in the closure call h: the last one
\* invoked.
FailedCriterion(h) ==
    LET t == h.evals[Len(h.evals)].trace IN t[Len(t)]

\* C6 as claimed: the error of a Created criterion on an entry whose
\* metadata is readable but holds no creation time differs from the error
\* of a criterion on an entry whose metadata cannot be read.
C6_Claim_UnsupportedFieldDistinct ==
    \A h1 \in history : \A h2 \in history :
        ( /\ Errored(h1) /\ Errored(h2)
          /\ FailedCriterion(h1).crit = "Created"
          /\ h1.item.meta_ok /\ ~h1.item.has_btime
          /\ FailedCriterion(h2).crit
                \in {"Filesize", "Modified", "Accessed", "Created"}
          /\ ~h2.item.meta_ok )
        => ErrorOf(h1) # ErrorOf(h2)

\* C7: the list find returns is the first min(N, total) elements of the
\* concatenation, in root order, of each root's matches in walk order, N
\* being max_num_results; its length never exceeds N.
C7_ResultIsCappedPrefix ==
    pc = "done" =>
        LET all == AllMatches(paths_to_search_in, Len(paths_to_search_in))
        IN  /\ ret[1] = SubSeq(all, 1,
                               Min(find_options.max_num_results, Len(all)))
            /\ Len(ret[1]) <= find_options.max_num_results

\* C7 witness: find has returned with more matches found than the cap
\* allows, the matches coming from two roots.
C7_Witness ==
    /\ pc = "done"
    /\ Len(paths) = 2
    /\ find_options.max_num_results = 2
    /\ Len(RootArgMatches(paths_to_search_in[1])) = 1
    /\ Len(AllMatches(paths_to_search_in, Len(paths_to_search_in))) > 2

\* The number of matches that come before item i of root r in traversal
\* order.
MatchesBefore(r, i) ==
    CumulativeMatches(r - 1) + Len(MatchPaths(WalkOf(paths[r]), i - 1))

\* C8 as claimed: no entry that comes after the N-th match of the
\* traversal is evaluated against the conditions (N = max_num_results >= 1).
C8_Claim_NothingEvaluatedAfterCap ==
    find_options.max_num_results >= 1 =>
        \A h \in history :
            h.stage = "evaluated"
                => MatchesBefore(h.root, h.idx) < find_options.max_num_results

\* C8 amended: no entry of a root that comes after the root holding the
\* N-th match is evaluated, while in every root that was walked, the root
\* holding the N-th match included, the closure has run on every item by
\* the time the matches of the root are collected.
C8_NoLaterRootEvaluated ==
    /\ find_options.max_num_results >= 1 =>
          \A h \in history :
              CumulativeMatches(h.root - 1) < find_options.max_num_results
    /\ \A r \in 1..Len(paths) :
          (r < k \/ (r = k /\ pc \in {"break", "done"}))
              => \A i \in 1..Len(WalkOf(paths[r])) :
                    \E h \in history : h.root = r /\ h.idx = i

\* C8 witness: find has returned with the cap reached by a match of the
\* first root that is not its last item, a second root being left.
C8_Witness ==
    /\ pc = "done"
    /\ Len(paths) = 2
    /\ k = 1
    /\ find_options.max_num_results = 2
    /\ \E h \in history :
          /\ h.stage = "evaluated"
          /\ MatchesBefore(h.root, h.idx) >= find_options.max_num_results

\* C9: once the matches accumulated after finishing a root reach
\* max_num_results, no later root is walked.
C9_NoRootAfterCap ==
    \A r \in 1..Len(paths) :
        Walked(r) =>
            \A q \in 1..(r - 1) :
                CumulativeMatches(q) < find_options.max_num_results

\* C9 witness: find has returned having walked the first of two roots
\* only, the cap being reached there.
C9_Witness ==
    /\ pc = "done"
    /\ Len(paths) = 2
    /\ ~Walked(2)
    /\ CumulativeMatches(1) >= find_options.max_num_results
    /\ find_options.max_num_results >= 1

\* The paths of the entries of the walks of the first n canonicalized
\* roots, in root order and, within a root, in walk order.
RECURSIVE TraversalPaths(_)
TraversalPaths(n) ==
    IF n = 0 THEN <<>>
    ELSE LET w == SelectSeq(WalkOf(paths[n]), LAMBDA it : it.kind = "entry")
         IN  TraversalPaths(n - 1) \o [i \in 1..Len(w) |-> w[i].path]

\* q is p with elements left out: the elements of q occur in p in the
\* order of q.
RECURSIVE IsSubsequence(_, _)
IsSubsequence(q, p) ==
    IF q = <<>> THEN TRUE
    ELSE IF p = <<>> THEN FALSE
    ELSE IF Head(q) = Head(p) THEN IsSubsequence(Tail(q), Tail(p))
    ELSE IsSubsequence(q, Tail(p))

\* The paths of the entries of a collected walk, in walk order.
EntryPaths(w) ==
    LET e == SelectSeq(w, LAMBDA it : it.kind = "entry")
    IN  [i \in 1..Len(e) |-> e[i].path]

\* C10: the list find returns keeps root order first and, within a root,
\* the order of the walk, whatever the order in which the workers ran the
\* closures: at any moment the Some slots of the root under evaluation,
\* collected, are in walk order, and so are the accumulated and the
\* returned matches.
C10_OrderPreserved ==
    /\ pc = "par" => IsSubsequence(collect_slots(slot, 1), EntryPaths(entries))
    /\ IsSubsequence(results, TraversalPaths(Len(paths)))
    /\ pc = "done" => IsSubsequence(ret[1], TraversalPaths(Len(paths)))

\* C10 witness: in the second root, after matches of the first root were
\* appended, the closure of a later item has returned a match while the
\* closure of an earlier matching item has not run yet.
C10_Witness ==
    /\ pc = "par"
    /\ k = 2
    /\ results # <<>>
    /\ \E i \in 1..Len(slot) : \E j \in 1..Len(slot) :
          /\ i < j
          /\ ~slot[i].done /\ IsMatch(entries[i])
          /\ slot[j].done /\ slot[j].some

\* What find returns when the closures run one after the other in walk
\* order: per root the matches in walk order, appended until the cap is
\* reached.  It depends on the arguments of find and the filesystem only.
RECURSIVE SequentialResults(_, _)
SequentialResults(roots, acc) ==
    IF roots = <<>> THEN acc
    ELSE LET m == MatchPaths(WalkOf(Head(roots)), Len(WalkOf(Head(roots))))
         IN  IF Len(acc) + Len(m) >= find_options.max_num_results
             THEN acc \o SubSeq(m, 1,
                      Min(find_options.max_num_results - Len(acc), Len(m)))
             ELSE SequentialResults(Tail(roots), acc \o m)

\* C11: two runs of find with the same roots, the same FindOptions and the
\* same walk output return the same match list whatever the scheduling of
\* the closures: in every run the slot of an item that is done holds what
\* the closure yields on that item alone, and the list returned is the one
\* of the run that evaluates the items in walk order, a function of the
\* arguments.
C11_SameInputsSameMatches ==
    /\ pc = "par" =>
          \A i \in 1..Len(slot) :
              slot[i].done =>
                  slot[i] = DoneSlot(filter_map_closure(entries[i],
                                                        find_options).out)
    /\ pc = "done" =>
          ret[1] = SequentialResults(canonicalize_all(paths_to_search_in),
                                     <<>>)

\* C11 witness: find has returned two or more matches of one root, whose
\* closures the workers could run in either order.
C11_Witness ==
    /\ pc = "done"
    /\ Len(ret[1]) >= 2
    /\ \E r \in 1..Len(paths) :
          /\ Walked(r)
          /\ Len(MatchPaths(WalkOf(paths[r]), Len(WalkOf(paths[r])))) >= 2
          /\ \E h1 \in history : \E h2 \in history :
                /\ h1.root = r /\ h2.root = r /\ h1.idx # h2.idx
                /\ h1.out.some /\ h2.out.some

\* The matches of root r of the canonicalized list have been collected.
Collected(r) == r < k \/ (r = k /\ pc \in {"break", "done"})

\* The closure has run on item i of root r and went as far as the filters
\* let that item go.
RanOn(r, i) ==
    \E g \in history :
        /\ g.root = r /\ g.idx = i
        /\ g.stage = filter_map_closure(WalkOf(paths[r])[i],
                                        find_options).stage

\* C12: a walk error or an evaluation error on an entry does not end the
\* query: every other item of the walk of that root goes through the
\* filters and the evaluation, so does every item of each later root the
\* cap lets the loop come to, and find leaves the loop only with the cap
\* reached or with the roots exhausted.
C12_ErrorsDoNotEndQuery ==
    /\ \A h \in history :
          (h.stage = "walk_error" \/ Errored(h)) =>
              /\ Collected(h.root) =>
                    \A i \in 1..Len(WalkOf(paths[h.root])) : RanOn(h.root, i)
              /\ pc = "done" =>
                    \A r \in (h.root + 1)..Len(paths) :
                        CumulativeMatches(r - 1)
                              < find_options.max_num_results
                            => \A i \in 1..Len(WalkOf(paths[r])) : RanOn(r, i)
    /\ pc \in {"break", "done"} =>
          \/ k > Len(paths)
          \/ Len(results) = find_options.max_num_results

\* C12 witness: find has returned after a first root with a walk error and
\* an entry whose evaluation failed, having evaluated, after the failed
\* entry, a further entry of that root and an entry of the second root.
C12_Witness ==
    /\ pc = "done"
    /\ Len(paths) = 2
    /\ k = 3
    /\ \E h \in history : h.root = 1 /\ h.stage = "walk_error"
    /\ \E h \in history : \E g \in history :
          /\ h.root = 1 /\ Errored(h)
          /\ g.root = 1 /\ g.idx > h.idx /\ g.stage = "evaluated"
    /\ \E g \in history : g.root = 2 /\ g.stage = "evaluated"

\* The entry with the type exchanged: a file for a directory and back.
OtherType(item) ==
    [item EXCEPT !.ftype = IF @ = "file" THEN "dir" ELSE "file"]

\* C19: with ignore = Files no regular file is a match, with ignore =
\* Folders no directory is, whatever the conditions; with ignore unset no
\* entry is dropped for its type: no closure call ends at the ignore
\* filter and the outcome of each is the one the entry would have with the
\* other type.
C19_IgnoreFilter ==
    \A h \in history :
        h.item.kind = "entry" =>
            /\ ( \/ (find_options.ignore = "Files" /\ h.item.ftype = "file")
                 \/ (find_options.ignore = "Folders" /\ h.item.ftype = "dir") )
               => /\ ~h.out.some
                  /\ h.item.path \notin Range(results)
                  /\ pc = "done" => h.item.path \notin Range(ret[1])
            /\ find_options.ignore = "None"
               => /\ h.stage # "ignored"
                  /\ h.out = filter_map_closure(OtherType(h.item),
                                                find_options).out

\* C19 witness: find has returned, with ignore = Files, a directory, having
\* dropped a regular file that the conditions alone would have let through.
C19_Witness ==
    /\ pc = "done"
    /\ find_options.ignore = "Files"
    /\ ret[1] # <<>>
    /\ \E h \in history :
          /\ h.stage = "ignored"
          /\ h.item.ftype = "file"
          /\ filter_map_closure(h.item, [find_options EXCEPT !.ignore = "None"])
                .out.some

\* C20: with ignore_hidden_files set, an entry that comes to the hidden
\* filter is skipped there iff its file name converts to text and begins
\* with '.'; an entry whose name does not convert goes on to the evaluation
\* of the conditions, and is a match when there is no condition: the
\* filter makes no error of it.  Without the switch nothing is skipped there.
C20_HiddenFilter ==
    \A h \in history :
        /\ (find_options.ignore_hidden_files
                /\ h.stage \in {"hidden", "evaluated"})
           => /\ h.stage = "hidden"
                    <=> /\ h.item.name_utf8
                        /\ str_starts_with(entry_file_name(h.item.path),
                                           <<".">>)
              /\ ~h.item.name_utf8 =>
                    /\ h.stage = "evaluated"
                    /\ find_options.options = <<>> => h.out.some
        /\ ~find_options.ignore_hidden_files => h.stage # "hidden"

\* C20 witness: with ignore_hidden_files set, find has returned having
\* skipped a file whose name begins with '.' and having kept, as a match,
\* an entry whose name does not convert to text.
C20_Witness ==
    /\ pc = "done"
    /\ find_options.ignore_hidden_files
    /\ \E h \in history : h.stage = "hidden"
    /\ \E h \in history :
          /\ h.stage = "evaluated"
          /\ ~h.item.name_utf8
          /\ h.out.some
          /\ h.item.path \in Range(ret[1])

(***************************************************************************)
(* Properties of the depth bounds, checked under SpecDepth.                *)
(***************************************************************************)
\* C13 as claimed: when min_depth_from_start is greater than
\* max_search_depth, the list find returns is empty.
C13_Claim_EmptyWhenMinAboveMax ==
    ( /\ pc = "done"
      /\ find_options.min_depth_from_start > find_options.max_search_depth )
    => ret[1] = <<>>

\* C14 as claimed: with min_depth_from_start = 1 and max_search_depth = 1
\* and the root /d holding the file /d/f and the file /d/s/g, the walk of
\* /d hands g and not f to the closure, and f is never returned.
C14_Claim_DirectChildIsDepthZero ==
    ( /\ find_options.min_depth_from_start = 1
      /\ find_options.max_search_depth = 1 )
    => /\ (pc = "par" /\ paths[k] = E_d.path) =>
              /\ E_dsg \in Range(entries)
              /\ E_df \notin Range(entries)
       /\ E_df.path \notin Range(results)
       /\ pc = "done" => E_df.path \notin Range(ret[1])

(***************************************************************************)
(* Properties of the constructors of the builder, checked under SpecBuild. *)
(***************************************************************************)
\* The left fold of And over Value(cs[i]) in list order:
\* And(And(Value(cs[1]), Value(cs[2])), Value(cs[3])) for three criteria.
RECURSIVE LeftFoldAnd(_)
LeftFoldAnd(cs) ==
    IF Len(cs) = 1 THEN Value(cs[1])
    ELSE And(LeftFoldAnd(SubSeq(cs, 1, Len(cs) - 1)), Value(cs[Len(cs)]))

\* q is the beginning of p.
IsPrefix(q, p) == Len(q) <= Len(p) /\ q = SubSeq(p, 1, Len(q))

\* C15 as claimed: for a non-empty list, add_all_of_condition pushes
\* exactly one condition, the left fold of And over Value(criteria[i]) in
\* list order, and the evaluation of that condition invokes the criteria
\* in list order, criteria[0] first.
C15_Claim_LeftFoldInListOrder ==
    [][ /\ (pc = "build" /\ pc' = "all_of" /\ search_criterias # <<>>) =>
              find_options'.options =
                  Append(find_options.options, LeftFoldAnd(search_criterias))
        /\ (pc = "all_of" /\ ev.out = PendingEval /\ ev'.out # PendingEval) =>
              IsPrefix(ev'.out.trace, search_criterias)
      ]_vars

\* What each criterion of the list yields on the entry, by itself.
Alone(i) == evaluate_Value(search_criterias[i], ev.entry)
NoCriterionErrors ==
    \A i \in 1..Len(search_criterias) : Alone(i) # ErrUnit

\* C16: when no criterion of the list fails on the entry, the condition
\* add_all_of_condition built is true on the entry iff every criterion is
\* true on it; for [Filesize::Over(100), Filesize::Under(1000)] the file of
\* 500 bytes matches, those of 50 and of 5000 bytes do not.
C16_AllOfIffEvery ==
    (pc = "all_of" /\ Evaluated) =>
        /\ NoCriterionErrors =>
              /\ ev.out.res \in {OkTrue, OkFalse}
              /\ ev.out.res = OkTrue
                    <=> \A i \in 1..Len(search_criterias) : Alone(i) = OkTrue
        /\ search_criterias = <<Filesize("Over", 100), Filesize("Under", 1000)>>
              => /\ ev.entry.len = 500 => ev.out.res = OkTrue
                 /\ ev.entry.len \in {50, 5000} => ev.out.res = OkFalse

\* C16 witness: the all-of condition of [Over(100), Under(1000)] was
\* evaluated on the file of 500 bytes and is true.
C16_Witness ==
    /\ pc = "all_of"
    /\ search_criterias = <<Filesize("Over", 100), Filesize("Under", 1000)>>
    /\ ev.entry = F_500
    /\ ev.out.res = OkTrue

\* The operands of a chain of And nodes, with the number of times each
\* occurs: the conjuncts of the conjunction.
RECURSIVE CountConjunct(_, _)
CountConjunct(cond, c) ==
    IF cond.op = "And"
    THEN CountConjunct(cond.c1, c) + CountConjunct(cond.c2, c)
    ELSE IF cond = c THEN 1 ELSE 0

RECURSIVE NumConjuncts(_)
NumConjuncts(cond) ==
    IF cond.op = "And" THEN NumConjuncts(cond.c1) + NumConjuncts(cond.c2)
    ELSE 1

\* C17: when no criterion of the list fails on the entry, the condition
\* add_nothing_of_condition built is true on the entry iff no criterion is
\* true on it; the condition is a conjunction whose conjuncts are the
\* Not(Value(c_i)), one for each criterion of the list.
C17_NothingOfIffNone ==
    (pc = "nothing_of" /\ Evaluated) =>
        /\ NoCriterionErrors =>
              /\ ev.out.res \in {OkTrue, OkFalse}
              /\ ev.out.res = OkTrue
                    <=> \A i \in 1..Len(search_criterias) : Alone(i) # OkTrue
        /\ NumConjuncts(ev.cond) = Len(search_criterias)
        /\ \A i \in 1..Len(search_criterias) :
              CountConjunct(ev.cond, Not(Value(search_criterias[i])))
                  = Cardinality({j \in 1..Len(search_criterias) :
                                    search_criterias[j] = search_criterias[i]})

\* C17 witness: the none-of condition of two different criteria, neither
\* of which holds on the entry, was evaluated and is true.
C17_Witness ==
    /\ pc = "nothing_of"
    /\ Evaluated
    /\ Len(search_criterias) = 2
    /\ search_criterias[1] # search_criterias[2]
    /\ NoCriterionErrors
    /\ ev.out.res = OkTrue

(***************************************************************************)
(* Properties of SearchCriteria::try_from, checked under SpecParse.        *)
(***************************************************************************)
\* The call of try_from of the state has returned or panicked.
Parsed == call.fn = "try_from" /\ call.ret # PendingRet

\* The value is valid for the criteria of the row: any text for the
\* criteria that keep it, a number, a pattern that compiles.
ValidFor(row, v) ==
    CASE row.kind = "string" -> TRUE
      [] row.kind = "u64" -> parse_int(v, FALSE).ok
      [] row.kind = "i64" -> parse_int(v, TRUE).ok
      [] row.kind = "regex" -> regex_new(v).ok

\* The text name="value".
NameEqualsQuoted(n, v) == n \o <<"=", "\"">> \o v \o <<"\"">>

\* C21 as claimed: for each documented criteria name N and each value V
\* valid for N, try_from on the text N="V" returns Ok with the variant
\* named by N carrying V, parsed as a number for the filesize and time
\* criteria.
C21_Claim_NameEqualsQuotedValueParses ==
    Parsed =>
        \A row \in CriteriaTable : \A v \in ParseValues :
            ( /\ ValidFor(row, v)
              /\ call.search_criteria_str = NameEqualsQuoted(row.name, v) )
            => call.ret = criteria_of(row, v)

ParsingErrors ==
    {"NoValue", "MissingDoubleQuotes", "UnknownCriteria", "MalformedNumber",
     "MalformedRegex"}

\* C29 as claimed: try_from is total: on every text it returns Ok or one of
\* the SearchCriteriaParsingError values, NoValue when the text holds no
\* '=', and it never panics, the texts whose part before '=' is a single
\* double quote included.
C29_Claim_TryFromTotal ==
    Parsed =>
        /\ \/ call.ret.tag = "Ok"
           \/ (call.ret.tag = "Err" /\ call.ret.err \in ParsingErrors)
        /\ (\A i \in 1..Len(call.search_criteria_str) :
                call.search_criteria_str[i] # "=")
           => call.ret = ParseErr("NoValue")

(***************************************************************************)
(* Properties of overwrite_with_zeroes, checked under SpecOverwrite.       *)
(***************************************************************************)
Max(a, b) == IF a > b THEN a ELSE b

\* Every byte of the runs is zero.
AllZero(b) == \A j \in 1..Len(b) : b[j].byte = 0

\* C22: after overwrite_with_zeroes(buf, len) returns Ok the buffer is len
\* zero bytes followed by the old bytes from index len on: its first len
\* bytes are zero, its length is max(old length, len), and the bytes
\* written, full chunks of 100000 plus the remainder, are len in all.
C22_OverwrittenPrefix ==
    (call.fn = "overwrite_with_zeroes" /\ call.ret = [tag |-> "Ok"]) =>
        /\ call.buf = normalise(<<Run(0, call.len)>>
                                \o drop_bytes(call.old, call.len))
        /\ AllZero(take_bytes(call.buf, call.len))
        /\ buf_len(take_bytes(call.buf, call.len)) = call.len
        /\ buf_len(call.buf) = Max(buf_len(call.old), call.len)
        /\ call.written = call.len
        /\ call.written = call.i * zero_buffer_len
                            + remaining_bytes_to_overwrite(call.len)

\* C22 witness: the call has returned Ok after a full chunk and a
\* remainder, on a buffer longer than len whose last bytes are kept.
C22_Witness ==
    /\ call.fn = "overwrite_with_zeroes"
    /\ call.ret = [tag |-> "Ok"]
    /\ call.i >= 1
    /\ remaining_bytes_to_overwrite(call.len) > 0
    /\ buf_len(call.old) > call.len
    /\ ~AllZero(call.buf)

\* The criteria of a chain of Or nodes in the order evaluate() reaches
\* them: those of the left operand, then those of the right one.
RECURSIVE OrLeaves(_)
OrLeaves(cond) ==
    IF cond.op = "Or" THEN OrLeaves(cond.c1) \o OrLeaves(cond.c2)
    ELSE <<cond.v>>

\* The position in that order of the first criterion that is not Ok(false)
\* on the entry of the state; 0 when all are Ok(false).
FirstNotFalse(order) ==
    LET S == {i \in 1..Len(order) :
                 evaluate_Value(order[i], ev.entry) # OkFalse}
    IN  IF S = {} THEN 0 ELSE CHOOSE i \in S : \A j \in S : i <= j

\* C27: the condition add_any_of_condition built is Ok(true) on an entry
\* iff, in the order in which the tree reaches its criteria, the first one
\* that is not Ok(false) is Ok(true); when that one is an error the whole
\* condition is that error, which find takes for false, whatever the
\* criteria after it would yield.
C27_AnyOfFirstOutcomeDecides ==
    (pc = "any_of" /\ Evaluated) =>
        LET order == OrLeaves(ev.cond)
            first == FirstNotFalse(order)
        IN  /\ Len(order) = Len(search_criterias)
            /\ {order[i] : i \in 1..Len(order)} =
                  {search_criterias[i] : i \in 1..Len(search_criterias)}
            /\ ev.out.res = OkTrue <=>
                  (first > 0 /\ evaluate_Value(order[first], ev.entry) = OkTrue)
            /\ (first > 0 /\ evaluate_Value(order[first], ev.entry) = ErrUnit)
                  => /\ ev.out.res = ErrUnit
                     /\ ~unwrap_or_false(ev.out.res)
                     /\ ev.out.trace = SubSeq(order, 1, first)
            /\ first = 0 => ev.out.res = OkFalse

\* The any-of condition of three criteria is an error on an entry: the
\* first criterion reached is false, the second fails, and the third,
\* which holds on the entry, was not evaluated.
C27_Witness ==
    /\ pc = "any_of"
    /\ Evaluated
    /\ Len(search_criterias) = 3
    /\ FirstNotFalse(OrLeaves(ev.cond)) = 2
    /\ ev.out.res = ErrUnit
    /\ evaluate_Value(OrLeaves(ev.cond)[3], ev.entry) = OkTrue

(***************************************************************************)
(* The cap of find, under Spec.                                            *)
(***************************************************************************)
\* C28: while find runs, results never holds more than max_num_results
\* paths, and at the head of every iteration of the loop over the roots
\* after the first it holds fewer; so max_num_results - results.len(), the
\* length the matches of a root are truncated to, is never below 0, for
\* every max_num_results, 0 included.
C28_ResultsWithinCap ==
    /\ Len(results) <= find_options.max_num_results
    /\ (pc = "loop" /\ k > 1 /\ k <= Len(paths)) =>
          Len(results) < find_options.max_num_results
    /\ pc = "par" => find_options.max_num_results - Len(results) >= 0
    /\ (pc = "par" /\ k > 1) =>
          find_options.max_num_results - Len(results) > 0

\* The second root of a find with a cap of 2 is about to be walked with one
\* match in results.
C28_Witness ==
    /\ pc = "loop"
    /\ k = 2
    /\ k <= Len(paths)
    /\ find_options.max_num_results = 2
    /\ Len(results) = 1

\* The file name of the entry of a record begins with '.'.
OwnNameHidden(h) ==
    /\ h.item.name_utf8
    /\ str_starts_with(entry_file_name(h.item.path), <<".">>)

\* C30: the hidden filter looks at the file name of the entry alone: an
\* entry whose own name does not begin with '.' is never skipped by it,
\* also when it lies in a directory whose name does; the walk goes into
\* such a directory, so with ignore_hidden_files set a find on /v without
\* conditions returns /v/.c/k and neither /v/.c nor /v/.c/.z.
C30_HiddenFilterLooksAtOwnName ==
    /\ \A h \in history :
          (h.item.kind = "entry" /\ ~OwnNameHidden(h)) => h.stage # "hidden"
    /\ (/\ pc = "done"
        /\ paths_to_search_in[1] = <<"/", "v">>
        /\ find_options.ignore_hidden_files
        /\ find_options.ignore = "None"
        /\ find_options.options = <<>>)
          => /\ E_vck.path \in Range(ret[1])
             /\ E_v.path \in Range(ret[1])
             /\ E_vc.path \notin Range(ret[1])
             /\ E_vcz.path \notin Range(ret[1])

\* With ignore_hidden_files set, find has skipped the directory /v/.c at
\* the hidden filter and has returned the file k that lies in it.
C30_Witness ==
    /\ pc = "done"
    /\ find_options.ignore_hidden_files
    /\ \E h \in history : h.item = E_vc /\ h.stage = "hidden"
    /\ \E h \in history :
          /\ h.item = E_vck
          /\ has_hidden_component(h.item.path)
          /\ h.stage = "evaluated"
          /\ h.out.some
    /\ E_vck.path \in Range(ret[1])

(***************************************************************************)
(* Properties of rename_files, under SpecRename.                           *)
(***************************************************************************)
\* The text of the template of the call, without its options.
TextTemplate == splitn_2_pipe(call.new_filename_template)[1]

\* What is between the braces of a slice "{...}".
Between(slice) == SubSeq(slice, 2, Len(slice) - 1)

\* A template as the documentation of rename_files reads it: every brace
\* has its partner and what is between two braces is one of the five
\* variables.
WellFormed(text) ==
    \A i \in 1..Len(lexer(text)) :
        /\ lexer(text)[i].tok # "Error"
        /\ lexer(text)[i].tok = "Variable" =>
              Between(lexer(text)[i].slice) \in VariableNames

\* The parts such a template stands for, in the order of the template.
ClaimedParts(text) ==
    [i \in 1..Len(lexer(text)) |->
        IF lexer(text)[i].tok = "Constant"
        THEN Constant(lexer(text)[i].slice)
        ELSE Variable(FilenameVariable_from_text(
                          Between(lexer(text)[i].slice)).val)]

HasVariable(text) ==
    \E i \in 1..Len(lexer(text)) : lexer(text)[i].tok = "Variable"

TokenizeFailed == call.ret.tag = "Err" /\ call.ret.kind = "TokenizeError"
OptionsFailed == call.ret.tag = "Err" /\ call.ret.kind = "OptionsParsingError"

\* C24 as claimed: FilenamePart::from_text on a template that holds
\* {filename}, {filename_extension}, {filename_base}, {filesize} or
\* {incrementing_number} returns Ok: what is between the braces is mapped
\* to its FilenameVariable and what is outside is kept as Constant parts,
\* in the order of the template.
C24_Claim_VariablesInBracesTokenize ==
    (/\ call.fn = "rename_files"
     /\ pc \in {"rn_loop", "rn_done"}
     /\ WellFormed(TextTemplate)
     /\ HasVariable(TextTemplate))
        => /\ ~TokenizeFailed
           /\ ~OptionsFailed =>
                 call.filename_template = ClaimedParts(TextTemplate)

\* The name the parts give to a file when number is what stands for
\* {incrementing_number}; None when a variable of the file cannot be read.
RECURSIVE ClaimedName(_, _, _)
ClaimedName(parts, path, number) ==
    IF parts = <<>> THEN Some(<<>>)
    ELSE LET rest == ClaimedName(Tail(parts), path, number)
             this == IF Head(parts).part = "Constant"
                     THEN Some(Head(parts).text)
                     ELSE IF Head(parts).var = "IncrementingNumber"
                     THEN Some(to_string(number))
                     ELSE LET r == parse_filename_variable(
                                       [incrementing_number |-> number],
                                       Head(parts).var, path)
                          IN  IF r.tag = "Ok" THEN Some(r.val) ELSE None
         IN  IF this = None \/ rest = None THEN None
             ELSE Some(this.path \o rest.path)

HasIncrementingNumber(text) ==
    \E i \in 1..Len(ClaimedParts(text)) :
        ClaimedParts(text)[i] = Variable("IncrementingNumber")

\* incrementing_number_starts_at of the options of the call, 0 without
\* options.
StartsAt ==
    LET parts == splitn_2_pipe(call.new_filename_template)
    IN  IF Len(parts) = 1 THEN 0
        ELSE FilenameOptions_new(parts[2]).val.incrementing_number_starts_at

OptionsAreFine ==
    LET parts == splitn_2_pipe(call.new_filename_template)
    IN  Len(parts) = 2 => FilenameOptions_new(parts[2]).tag = "Ok"

\* C23 as claimed: when rename_files is done with a template that holds
\* {incrementing_number}, every file of the list has been given its new
\* name, and the number in the new name of the k-th file (k from 0) is
\* incrementing_number_starts_at + k, from 0 when there is no such option.
C23_Claim_CounterIsStartPlusPosition ==
    (/\ call.fn = "rename_files"
     /\ pc = "rn_done"
     /\ WellFormed(TextTemplate)
     /\ HasIncrementingNumber(TextTemplate)
     /\ OptionsAreFine)
        => /\ call.ret.tag = "Ok"
           /\ Len(call.log) = Len(call.files_to_rename)
           /\ \A n \in 1..Len(call.log) :
                 LET name == ClaimedName(ClaimedParts(TextTemplate),
                                         call.files_to_rename[n],
                                         StartsAt + (n - 1))
                 IN  name # None =>
                        /\ call.log[n].parsed
                        /\ call.log[n].filename_new = name.path

(***************************************************************************)
(* Properties of the two duplicate finders, under SpecDuplicates.          *)
(***************************************************************************)
NoReadError ==
    \A n \in 1..Len(call.files_to_check) :
        /\ call.files_to_check[n].has_metadata
        /\ call.files_to_check[n].readable

BothDone == call.contents.at = "done" /\ call.hash.at = "done"

\* The positions i < j of the input list whose files have the paths of the
\* pair and the same length.
PositionsOf(pair) ==
    {p \in (1..Len(call.files_to_check)) \X (1..Len(call.files_to_check)) :
        /\ p[1] < p[2]
        /\ call.files_to_check[p[1]].path = pair[1]
        /\ call.files_to_check[p[2]].path = pair[2]
        /\ Len(call.files_to_check[p[1]].bytes) =
              Len(call.files_to_check[p[2]].bytes)}

\* Every pair of the list stands for positions of its own.
OncePerPosition(duplicates) ==
    \A n \in 1..Len(duplicates) :
        Cardinality({m \in 1..Len(duplicates) : duplicates[m] = duplicates[n]})
            <= Cardinality(PositionsOf(duplicates[n]))

\* C25: on a list of files none of which fails to be read, every pair
\* find_duplicate_files reports is reported by find_duplicate_files_hash
\* too, and each of them reports a pair only for positions i < j of the
\* list with files of the same length, at most once for each such pair.
C25_HashVersionReportsEveryPair ==
    (call.fn = "find_duplicate_files" /\ NoReadError) =>
        /\ OncePerPosition(call.contents.duplicates)
        /\ OncePerPosition(call.hash.duplicates)
        /\ BothDone =>
              \A n \in 1..Len(call.contents.duplicates) :
                  \E m \in 1..Len(call.hash.duplicates) :
                      call.hash.duplicates[m] = call.contents.duplicates[n]

\* Both have returned on three files of the same length: two with the same
\* bytes, which both report, and a third whose checksum collides, which
\* only the hash version pairs with them.
C25_Witness ==
    /\ call.fn = "find_duplicate_files"
    /\ NoReadError
    /\ BothDone
    /\ Len(call.contents.duplicates) = 1
    /\ Len(call.hash.duplicates) = 3

(***************************************************************************)
(* Properties of find on lists of conditions, under SpecList.              *)
(***************************************************************************)
\* The records of the entries the closure evaluated the options on.
OptionsRanOn == {h \in history : h.stage = "evaluated"}

\* C26: the conditions of find_options.options are evaluated on an entry in
\* the order of the list, up to and including the first one that is not
\* Ok(true) and no further, and the entry is kept iff every condition of
\* the list evaluated to Ok(true); an empty list keeps every entry.
C26_OptionsInListOrderUntilFirstFailure ==
    \A h \in OptionsRanOn :
        LET options == find_options.options
            n == Len(h.evals)
        IN  /\ n <= Len(options)
            /\ \A m \in 1..n : h.evals[m] = evaluate(options[m], h.item)
            /\ \A m \in 1..(n - 1) : h.evals[m].res = OkTrue
            /\ n < Len(options) => (n >= 1 /\ h.evals[n].res # OkTrue)
            /\ h.out.some <=>
                  \A m \in 1..Len(options) :
                      evaluate(options[m], h.item).res = OkTrue
            /\ h.out.some => h.out.path = h.item.path

\* On one entry the first of two conditions errors and ends the
\* evaluation, although the second holds on the entry; on another entry
\* both were evaluated and the entry was kept.
C26_Witness ==
    /\ Len(find_options.options) = 2
    /\ \E h \in OptionsRanOn :
          /\ Len(h.evals) = 1
          /\ h.evals[1].res = ErrUnit
          /\ evaluate(find_options.options[2], h.item).res = OkTrue
          /\ ~h.out.some
    /\ \E h \in OptionsRanOn : Len(h.evals) = 2 /\ h.out.some
====
